---- MODULE Spec2Model ----
(***************************************************************************)
(* MirrorMate: the per-frame pipeline that turns hand landmarks into       *)
(* servo commands (camera_to_arduino_pca9685.py,                           *)
(* rock_paper_scissors_hand.py) and into telemetry packets                 *)
(* (real_hand_tracking.py, hand_detection/unity_exporter.py).              *)
(*                                                                         *)
(* Landmark coordinates are integers (grid units of the normalised camera  *)
(* space); every angle the code derives from them is invariant under the   *)
(* choice of unit.  Float results are modelled by the integer they         *)
(* truncate to; where the exact value is itself an integer, the rounding   *)
(* of the float expression decides between that integer and the one below, *)
(* and the model keeps both outcomes unless the expression has integer     *)
(* operands only (then the table of the actual double results is used).    *)
(***************************************************************************)
EXTENDS Integers, Sequences, FiniteSets, TLC

VARIABLES
  script,              \* the entry script that was started
  pc,                  \* position of that script's main()
  arduino_connected,   \* module global arduino_connected
  results,             \* hands.process(...) of the current frame: a sequence of hands
  has_last_wrist_angle,\* hasattr(send_servo_angles, 'last_wrist_angle')
  last_wrist_angle,    \* send_servo_angles.last_wrist_angle
  written,             \* commands written and flushed to the serial port during the current frame
  report,              \* per hand of the current frame: what send_servo_angles computed and printed
  sent,                \* datagrams handed to the UDP socket during the current frame
  probe_in,            \* input angle of the calibration-table evaluation
  probe_out,           \* its six servo values
  game,                \* rps_game.py globals: the scores, the gestures, game_result, countdown_active
  is_tracking,         \* UnityHandExporter.is_tracking, the stop signal of the tracking loop
  tracking_thread,     \* UnityHandExporter.tracking_thread: the number of a loop thread, 0 for None
  loops                \* the threads running _tracking_loop: position, camera handle, frames begun

vars == <<script, pc, arduino_connected, results, has_last_wrist_angle,
          last_wrist_angle, written, report, sent, probe_in, probe_out, game,
          is_tracking, tracking_thread, loops>>

\* the state of a UnityHandExporter and of its loop threads
exporter == <<is_tracking, tracking_thread, loops>>

----------------------------------------------------------------------------
(* Arithmetic helpers *)

Abs(x) == IF x < 0 THEN -x ELSE x

Min2(a, b) == IF a < b THEN a ELSE b
Max2(a, b) == IF a > b THEN a ELSE b

\* int(): truncation toward zero of the rational n/d, d > 0
Trunc(n, d) == IF n >= 0 THEN n \div d ELSE -((-n) \div d)

----------------------------------------------------------------------------
(* Landmarks: a hand is a sequence of <<x, y, z>>; Python index i is       *)
(* element i + 1.                                                          *)

HasIndex(landmarks, i) == i < Len(landmarks)
At(landmarks, i) == landmarks[i + 1]

Sub(a, b) == <<a[1] - b[1], a[2] - b[2], a[3] - b[3]>>
Dot(a, b) == a[1] * b[1] + a[2] * b[2] + a[3] * b[3]

\* cos(k degrees)^2, scaled by 100000, k = 0..180 (math.cos / math.acos)
CosSqTable ==
  <<
      100000, 99970, 99878, 99726, 99513, 99240, 98907, 98515, 98063, 97553, 96985, 96359,
      95677, 94940, 94147, 93301, 92402, 91452, 90451, 89401, 88302, 87157, 85967, 84733,
      83457, 82139, 80783, 79389, 77960, 76496, 75000, 73474, 71919, 70337, 68730, 67101,
      65451, 63782, 62096, 60396, 58682, 56959, 55226, 53488, 51745, 50000, 48255, 46512,
      44774, 43041, 41318, 39604, 37904, 36218, 34549, 32899, 31270, 29663, 28081, 26526,
      25000, 23504, 22040, 20611, 19217, 17861, 16543, 15267, 14033, 12843, 11698, 10599,
      9549, 8548, 7598, 6699, 5853, 5060, 4323, 3641, 3015, 2447, 1937, 1485,
      1093, 760, 487, 274, 122, 30, 0, 30, 122, 274, 487, 760,
      1093, 1485, 1937, 2447, 3015, 3641, 4323, 5060, 5853, 6699, 7598, 8548,
      9549, 10599, 11698, 12843, 14033, 15267, 16543, 17861, 19217, 20611, 22040, 23504,
      25000, 26526, 28081, 29663, 31270, 32899, 34549, 36218, 37904, 39604, 41318, 43041,
      44774, 46512, 48255, 50000, 51745, 53488, 55226, 56959, 58682, 60396, 62096, 63782,
      65451, 67101, 68730, 70337, 71919, 73474, 75000, 76496, 77960, 79389, 80783, 82139,
      83457, 84733, 85967, 87157, 88302, 89401, 90451, 91452, 92402, 93301, 94147, 94940,
      95677, 96359, 96985, 97553, 98063, 98515, 98907, 99240, 99513, 99726, 99878, 99970,
      100000
  >>

\* tan((2k/3 - 60) degrees), scaled by 1000000, k = 0..180: the tangent of the
\* atan2 angle at which map_value(angle, -60, 60, 0, 180) reaches k
TanTable ==
  <<
      -1732051, -1686426, -1642558, -1600335, -1559655, -1520426, -1482561, -1445980,
      -1410610, -1376382, -1343233, -1311105, -1279942, -1249693, -1220312, -1191754,
      -1163976, -1136941, -1110613, -1084955, -1059938, -1035530, -1011704, -988432,
      -965689, -943451, -921697, -900404, -879553, -859124, -839100, -819463,
      -800196, -781286, -762716, -744472, -726543, -708913, -691572, -674509,
      -657710, -641167, -624869, -608807, -592970, -577350, -561939, -546728,
      -531709, -516875, -502219, -487733, -473410, -459244, -445229, -431358,
      -417626, -404026, -390554, -377204, -363970, -350848, -337833, -324920,
      -312104, -299380, -286745, -274194, -261723, -249328, -237004, -224748,
      -212557, -200425, -188349, -176327, -164354, -152426, -140541, -128694,
      -116883, -105104, -93354, -81629, -69927, -58243, -46576, -34921,
      -23275, -11636, 0, 11636, 23275, 34921, 46576, 58243,
      69927, 81629, 93354, 105104, 116883, 128694, 140541, 152426,
      164354, 176327, 188349, 200425, 212557, 224748, 237004, 249328,
      261723, 274194, 286745, 299380, 312104, 324920, 337833, 350848,
      363970, 377204, 390554, 404026, 417626, 431358, 445229, 459244,
      473410, 487733, 502219, 516875, 531709, 546728, 561939, 577350,
      592970, 608807, 624869, 641167, 657710, 674509, 691572, 708913,
      726543, 744472, 762716, 781286, 800196, 819463, 839100, 859124,
      879553, 900404, 921697, 943451, 965689, 988432, 1011704, 1035530,
      1059938, 1084955, 1110613, 1136941, 1163976, 1191754, 1220312, 1249693,
      1279942, 1311105, 1343233, 1376382, 1410610, 1445980, 1482561, 1520426,
      1559655, 1600335, 1642558, 1686426, 1732051
  >>

\* cos(k degrees) >= -dot / sqrt(m), by signs and squares
CosAtLeast(k, dot, m) ==
  IF k <= 90
    THEN dot >= 0 \/ CosSqTable[k + 1] * m >= dot * dot * 100000
    ELSE dot > 0 /\ CosSqTable[k + 1] * m <= dot * dot * 100000

\* cos(k degrees) = -dot / sqrt(m) exactly: 180 - bend_angle is the integer k
CosExactly(k, dot, m) ==
  /\ CosSqTable[k + 1] * m = dot * dot * 100000
  /\ (k < 90 => dot <= 0)
  /\ (k > 90 => dot >= 0)

\* the values int(servo_angle) can take for the two segment vectors: the
\* floor of 180 - degrees(acos(cos_angle)), and at an exact integer angle
\* also the integer below (cos_angle is a rounded quotient of rounded roots;
\* at 0 the clamp of cos_angle to -1.0 makes acos exact)
servo_angle_values(mcp_to_pip, pip_to_tip) ==
  LET dot_product1 == Dot(mcp_to_pip, pip_to_tip)
      m == Dot(mcp_to_pip, mcp_to_pip) * Dot(pip_to_tip, pip_to_tip)
      s == Cardinality({k \in 1..180 : CosAtLeast(k, dot_product1, m)})
  IN  IF s > 0 /\ CosExactly(s, dot_product1, m) THEN {s - 1, s} ELSE {s}

\* calculate_finger_angle returning 0 where a joint index is missing
calculate_finger_angle_zero_on_missing(landmarks, palm_idx, mcp_idx, pip_idx, dip_idx, tip_idx) ==
  IF \E i \in {palm_idx, mcp_idx, pip_idx, dip_idx, tip_idx} : ~HasIndex(landmarks, i)
    THEN {0}
    ELSE LET mcp_to_pip == Sub(At(landmarks, pip_idx), At(landmarks, mcp_idx))
             pip_to_tip == Sub(At(landmarks, tip_idx), At(landmarks, pip_idx))
         IN  IF Dot(mcp_to_pip, mcp_to_pip) = 0 \/ Dot(pip_to_tip, pip_to_tip) = 0
               THEN {90}
               ELSE servo_angle_values(mcp_to_pip, pip_to_tip)

\* calculate_finger_angle testing only mcp_pip_magnitude against 0
calculate_finger_angle_no_tip_test(landmarks, palm_idx, mcp_idx, pip_idx, dip_idx, tip_idx) ==
  IF \E i \in {palm_idx, mcp_idx, pip_idx, dip_idx, tip_idx} : ~HasIndex(landmarks, i)
    THEN {90}
    ELSE LET mcp_to_pip == Sub(At(landmarks, pip_idx), At(landmarks, mcp_idx))
             pip_to_tip == Sub(At(landmarks, tip_idx), At(landmarks, pip_idx))
         IN  IF Dot(mcp_to_pip, mcp_to_pip) = 0
               THEN {90}
               ELSE servo_angle_values(mcp_to_pip, pip_to_tip)

calculate_finger_angle(landmarks, palm_idx, mcp_idx, pip_idx, dip_idx, tip_idx) ==
  IF \E i \in {palm_idx, mcp_idx, pip_idx, dip_idx, tip_idx} : ~HasIndex(landmarks, i)
    THEN {90}
    ELSE LET mcp_to_pip == Sub(At(landmarks, pip_idx), At(landmarks, mcp_idx))
             pip_to_tip == Sub(At(landmarks, tip_idx), At(landmarks, pip_idx))
         IN  IF Dot(mcp_to_pip, mcp_to_pip) = 0 \/ Dot(pip_to_tip, pip_to_tip) = 0
               THEN {90}
               ELSE servo_angle_values(mcp_to_pip, pip_to_tip)

\* map_value: the rational <<numerator, denominator>> of
\* (x - in_min) * (out_max - out_min) / (in_max - in_min) + out_min
map_value(x, in_min, in_max, out_min, out_max) ==
  <<(x - in_min) * (out_max - out_min) + out_min * (in_max - in_min), in_max - in_min>>

\* int(min(max(q, lo), hi)) for a rational q = <<n, d>>, d # 0, and integers lo <= hi
int_min_max(q, lo, hi) ==
  LET n == IF q[2] < 0 THEN -q[1] ELSE q[1]
      d == Abs(q[2])
  IN  IF n <= lo * d THEN lo
      ELSE IF n >= hi * d THEN hi
      ELSE Trunc(n, d)

\* floor of map_value(angle, -60, 60, 0, 180) clamped to [0, 180], where
\* angle = degrees(atan2(v, u)), v = primary_vector[0], u = -primary_vector[1]
normalized_angle_floor(v, u) ==
  IF u > 0
    THEN Cardinality({k \in 1..180 : TanTable[k + 1] * u <= v * 1000000})
    ELSE IF v < 0 THEN 0 ELSE 180

\* calculate_hand_rotation without the dead zone around the centre
calculate_hand_rotation_no_dead_zone(landmarks) ==
  IF \E i \in {0, 5, 9, 13, 17} : ~HasIndex(landmarks, i)
    THEN 90
    ELSE LET wrist == At(landmarks, 0)
             index_mcp == At(landmarks, 5)
             middle_mcp == At(landmarks, 9)
             ring_mcp == At(landmarks, 13)
             pinky_mcp == At(landmarks, 17)
             v == index_mcp[1] + middle_mcp[1] + ring_mcp[1] + pinky_mcp[1] - 4 * wrist[1]
             u == -(index_mcp[2] + middle_mcp[2] + ring_mcp[2] + pinky_mcp[2] - 4 * wrist[2])
         IN  normalized_angle_floor(v, u)

calculate_hand_rotation(landmarks) ==
  IF \E i \in {0, 5, 9, 13, 17} : ~HasIndex(landmarks, i)
    THEN 90
    ELSE LET wrist == At(landmarks, 0)
             index_mcp == At(landmarks, 5)
             middle_mcp == At(landmarks, 9)
             ring_mcp == At(landmarks, 13)
             pinky_mcp == At(landmarks, 17)
             \* 4 * primary_vector
             v == index_mcp[1] + middle_mcp[1] + ring_mcp[1] + pinky_mcp[1] - 4 * wrist[1]
             u == -(index_mcp[2] + middle_mcp[2] + ring_mcp[2] + pinky_mcp[2] - 4 * wrist[2])
             normalized_angle == normalized_angle_floor(v, u)
         IN  \* abs(normalized_angle - 90) < 5: the 5-degree dead zone
             IF normalized_angle >= 85 /\ normalized_angle < 95
               THEN 90
               ELSE normalized_angle

\* the per-channel calibration lines of send_servo_angles
\* wrist_servo without min(max(..., 0), 180)
wrist_servo_of_unclamped(wrist_angle) ==
  LET q == map_value(wrist_angle, 70, 110, 0, 180) IN Trunc(q[1], q[2])
\* wrist_servo mapped from the whole range [0, 180] of the rotation
wrist_servo_of_whole_range(wrist_angle) ==
  int_min_max(map_value(wrist_angle, 0, 180, 0, 180), 0, 180)
wrist_servo_of(wrist_angle) == int_min_max(map_value(wrist_angle, 70, 110, 0, 180), 0, 180)
thumb_servo_of(thumb_angle) == int_min_max(map_value(thumb_angle, 170, 120, 0, 180), 0, 180)
index_servo_of(index_angle) == int_min_max(map_value(index_angle, 180, 30, 0, 180), 0, 180)
middle_servo_of(middle_angle) == int_min_max(map_value(middle_angle, 180, 30, 0, 180), 0, 180)
\* ring_servo without the floor of 30
ring_servo_of_no_floor(ring_angle) == int_min_max(map_value(ring_angle, 180, 20, 0, 180), 0, 180)
ring_servo_of(ring_angle) == int_min_max(map_value(ring_angle, 180, 20, 0, 180), 30, 180)
pinky_servo_of(pinky_angle) == int_min_max(map_value(pinky_angle, 175, 20, 0, 180), 0, 180)

\* the pairs prev * 1000 + raw for which the double
\* prev * (1 - 0.3) + raw * 0.3 lies just below its exact integer value
FloatSumBelow ==
  {
      1031, 1041, 1051, 1101, 2062, 2072, 2082, 2092, 2102, 3003,
      4114, 4124, 4134, 4144, 4154, 4164, 4174, 6006, 6036, 7057,
      7067, 7077, 7087, 9109, 9119, 9129, 9139, 9149, 9159, 9169,
      9179, 11001, 12002, 12012, 12022, 12062, 12072, 14004, 14114, 14124,
      14134, 14144, 14154, 14164, 14174, 17007, 17057, 17067, 19009, 19109,
      19119, 19129, 19139, 19149, 19159, 19169, 22002, 23003, 23013, 23023,
      23053, 24004, 24014, 24024, 24034, 24044, 24114, 24124, 24134, 24144,
      24154, 28008, 28018, 29009, 29019, 29029, 29039, 29109, 29119, 29129,
      29139, 33003, 33013, 33023, 34004, 34014, 34024, 34114, 34124, 34134,
      38008, 38018, 39009, 39109, 39119, 43003, 44004, 46006, 46016, 46026,
      46036, 46046, 46096, 46106, 48008, 48018, 48028, 48038, 48048, 48058,
      48068, 48078, 48088, 48098, 51001, 51011, 51021, 51031, 51041, 51051,
      53003, 53013, 53023, 53033, 53043, 53053, 53063, 53073, 53083, 56006,
      56016, 56026, 56036, 56046, 58008, 58018, 58028, 58038, 58048, 58058,
      58068, 58078, 61001, 61011, 61021, 61031, 61041, 61051, 63003, 63013,
      63023, 63033, 63043, 63053, 63063, 66006, 66016, 66026, 66036, 66046,
      68008, 68018, 68028, 68038, 68048, 71001, 71011, 71021, 71031, 71041,
      73003, 73013, 73023, 73033, 73043, 76006, 76016, 76026, 76036, 78008,
      78018, 78028, 81001, 81011, 81021, 83003, 83013, 85005, 85015, 86006,
      88008, 90000, 91001, 92002, 92012, 92022, 92032, 92042, 92052, 92062,
      92072, 92082, 92092, 92102, 96006, 96016, 96026, 96036, 96046, 96056,
      96066, 96076, 96086, 96096, 96106, 96116, 96126, 96136, 96146, 96156,
      96166, 96176, 97007, 97017, 97027, 97037, 97047, 97057, 97067, 97077,
      97087, 97097, 101001, 101011, 101021, 101031, 101041, 101051, 101061, 101071,
      101081, 101091, 101101, 101111, 101121, 101131, 101141, 101151, 101161, 101171,
      102002, 102012, 102022, 102032, 102042, 102052, 102062, 102072, 102082, 102092,
      102102, 106006, 106016, 106026, 106036, 106046, 106056, 106066, 106076, 106086,
      106096, 106106, 106116, 106126, 106136, 106146, 106156, 106166, 106176, 107007,
      107017, 107027, 107037, 107047, 107057, 107067, 107077, 107087, 107097, 111001,
      111011, 111021, 111031, 111041, 111051, 111061, 111071, 111081, 111091, 111101,
      111111, 111121, 111131, 111141, 111151, 111161, 112002, 112012, 112022, 112032,
      112042, 112052, 112062, 112072, 112082, 112092, 112102, 116006, 116016, 116026,
      116036, 116046, 116056, 116066, 116076, 116086, 116096, 116106, 116116, 116126,
      116136, 116146, 116156, 117007, 117017, 117027, 117037, 117047, 117057, 117067,
      117077, 117087, 117097, 121001, 121011, 121021, 121031, 121041, 121051, 121061,
      121071, 121081, 121091, 121101, 121111, 121121, 121131, 121141, 122002, 122012,
      122022, 122032, 122042, 122052, 122062, 122072, 122082, 122092, 122102, 126006,
      126016, 126026, 126036, 126046, 126056, 126066, 126076, 126086, 126096, 126106,
      126116, 126126, 127007, 127017, 127027, 127037, 127047, 127057, 127067, 127077,
      127087, 127097, 131001, 131011, 131021, 131031, 131041, 131051, 131061, 131071,
      131081, 131091, 131101, 131111, 131121, 132002, 132012, 132022, 132032, 132042,
      132052, 132062, 132072, 132082, 132092, 132102, 136006, 136016, 136026, 136036,
      136046, 136056, 136066, 136076, 136086, 136096, 136106, 137007, 137017, 137027,
      137037, 137047, 137057, 137067, 137077, 137087, 137097, 141001, 141011, 141021,
      141031, 141041, 141051, 141061, 141071, 141081, 141091, 142002, 142012, 142022,
      142032, 142042, 142052, 142062, 142072, 142082, 142092, 146006, 146016, 146026,
      146036, 146046, 146056, 146066, 146076, 146086, 147007, 147017, 147027, 147037,
      147047, 147057, 147067, 147077, 151001, 151011, 151021, 151031, 151041, 151051,
      151061, 151071, 152002, 152012, 152022, 152032, 152042, 152052, 152062, 152072,
      156006, 156016, 156026, 156036, 156046, 156056, 157007, 157017, 157027, 157037,
      157047, 157057, 161001, 161011, 161021, 161031, 161041, 161051, 162002, 162012,
      162022, 162032, 162042, 165005, 165015, 165025, 165035, 166006, 166016, 166026,
      166036, 167007, 167017, 167027, 167037, 170000, 170010, 170020, 170030, 171001,
      171011, 171021, 172002, 172012, 172022, 175005, 175015, 176006, 176016, 177007,
      180000
  }

\* int(last_wrist_angle * (1 - smoothing_factor) + wrist_servo * smoothing_factor)
\* with smoothing_factor = 0.3, both operands integers in 0..180
smoothed_wrist_of(last, wrist_servo) ==
  LET exact == (7 * last + 3 * wrist_servo) \div 10
  IN  IF last * 1000 + wrist_servo \in FloatSumBelow THEN exact - 1 ELSE exact

----------------------------------------------------------------------------
(* The frames the camera and MediaPipe deliver.  A hand is built from the  *)
(* four finger MCP positions (the palm) and, per finger, the segment       *)
(* MCP->PIP and the half segment PIP->DIP = DIP->TIP; the wrist is the     *)
(* origin.  A hand cut to fewer than 21 landmarks has joints missing.      *)

Add(a, b) == <<a[1] + b[1], a[2] + b[2], a[3] + b[3]>>

Chain(base, bend) ==
  LET pip == Add(base, bend[1])
      dip == Add(pip, bend[2])
  IN  <<base, pip, dip, Add(dip, bend[2])>>

FullHand(palm, pose) ==
  <<(<<0, 0, 0>>)>> \o Chain(<<-4, -2, 0>>, pose[1]) \o Chain(palm[1], pose[2])
    \o Chain(palm[2], pose[3]) \o Chain(palm[3], pose[4]) \o Chain(palm[4], pose[5])

MkHand(palm, pose, n) == SubSeq(FullHand(palm, pose), 1, n)

\* finger bends: <<MCP->PIP, PIP->DIP>>
Straight   == << <<0, -2, 0>>, <<0, -1, 0>> >>   \* bend 0
Fist       == << <<0, -2, 0>>, <<0, 1, 0>> >>    \* bend 180
RightAngle == << <<0, -2, 0>>, <<1, 0, 0>> >>    \* bend 90
Hook       == << <<0, -2, 0>>, <<1, 1, 0>> >>    \* bend 135
Slight     == << <<0, -2, 0>>, <<1, -1, 1>> >>   \* bend about 55
Collapsed  == << <<0, -2, 0>>, <<0, 0, 0>> >>    \* PIP, DIP and TIP coincide

\* palms: the MCP joints of index, middle, ring and pinky
PalmCentre == << <<-3, -10, 0>>, <<-1, -10, 0>>, <<1, -10, 0>>, <<3, -10, 0>> >>
PalmTiltLeft == << <<-3, -10, 0>>, <<-1, -10, 0>>, <<0, -10, 0>>, <<1, -10, 0>> >>
PalmTiltRight == << <<-2, -20, 0>>, <<0, -20, 0>>, <<2, -20, 0>>, <<5, -20, 0>> >>

\* the hands of the frame loop
Hands ==
  { MkHand(PalmCentre, <<Straight, Straight, Fist, Straight, Straight>>, 21),
    MkHand(PalmTiltLeft, <<Slight, Collapsed, Slight, Fist, Slight>>, 21),
    MkHand(PalmTiltRight, <<Fist, Slight, Fist, Slight, Fist>>, 21),
    MkHand(PalmCentre, <<Slight, Fist, Slight, Slight, Fist>>, 14) }

\* max_num_hands of mp_hands.Hands(...)
max_num_hands == 2

\* a palm 20 units above the wrist, its centre shifted sideways by tilt
TiltedPalm(tilt) ==
  << <<tilt - 3, -20, 0>>, <<tilt - 1, -20, 0>>, <<tilt + 1, -20, 0>>, <<tilt + 3, -20, 0>> >>

\* palms with the MCP joints below the wrist (left and right of it) and on it
PalmBelowLeft == << <<-3, 10, 0>>, <<-2, 10, 0>>, <<-1, 10, 0>>, <<0, 10, 0>> >>
PalmBelowRight == << <<0, 10, 0>>, <<1, 10, 0>>, <<2, 10, 0>>, <<3, 10, 0>> >>
PalmOnWrist == << <<0, 0, 0>>, <<0, 0, 0>>, <<0, 0, 0>>, <<0, 0, 0>> >>

\* largest sideways shift of the palm centre
MaxTilt == 6

\* landmark counts of a hand: complete, without the pinky tip, cut after the
\* ring finger, cut inside the ring finger, cut after the thumb, empty
LandmarkCounts == {21, 20, 17, 14, 5, 0}

\* the hands send_servo_angles is called with on its own
WideHands ==
  { MkHand(TiltedPalm(tilt), <<b, b, b, b, b>>, 21) :
      tilt \in -MaxTilt..MaxTilt, b \in {Fist, Slight} }
  \cup { MkHand(palm, <<Straight, RightAngle, Hook, Collapsed, Straight>>, 21) :
           palm \in {PalmBelowLeft, PalmBelowRight, PalmOnWrist} }
  \cup { MkHand(PalmTiltLeft, <<Hook, Hook, Fist, Slight, Fist>>, n) : n \in LandmarkCounts }
  \cup { MkHand(PalmCentre, <<Straight, Straight, Straight, Straight, Straight>>, 21) }

\* one hand of WideHands, or two hands of the frame loop
WideFrames == { <<landmarks>> : landmarks \in WideHands } \cup [1..max_num_hands -> Hands]

\* results.multi_hand_landmarks of one frame: 0..max_num_hands hands
Frames == UNION { [1..n -> Hands] : n \in 0..max_num_hands }

----------------------------------------------------------------------------
(* camera_to_arduino_pca9685.py *)

\* the angles send_servo_angles computes for one hand
hand_angles(landmarks) ==
  { [ wrist_angle |-> calculate_hand_rotation(landmarks),
      thumb_angle |-> t, index_angle |-> i, middle_angle |-> m,
      ring_angle |-> r, pinky_angle |-> p ] :
      t \in calculate_finger_angle(landmarks, 0, 1, 2, 3, 4),
      i \in calculate_finger_angle(landmarks, 0, 5, 6, 7, 8),
      m \in calculate_finger_angle(landmarks, 0, 9, 10, 11, 12),
      r \in calculate_finger_angle(landmarks, 0, 13, 14, 15, 16),
      p \in calculate_finger_angle(landmarks, 0, 17, 18, 19, 20) }

\* the servo values send_servo_angles computes for one hand
hand_servos(landmarks) ==
  { [ wrist_servo |-> wrist_servo_of(a.wrist_angle),
      thumb_servo |-> thumb_servo_of(a.thumb_angle),
      index_servo |-> index_servo_of(a.index_angle),
      middle_servo |-> middle_servo_of(a.middle_angle),
      ring_servo |-> ring_servo_of(a.ring_angle),
      pinky_servo |-> pinky_servo_of(a.pinky_angle) ] : a \in hand_angles(landmarks) }

\* hand_servos of every hand of the model, evaluated once
servos_of == [landmarks \in Hands \cup WideHands |-> hand_servos(landmarks)]

\* finger_commands with the index command written before the thumb command
finger_commands_index_first(s, h) ==
  << [channel |-> 1, angle |-> s.index_servo, hand |-> h, sleep |-> 10],
     [channel |-> 3, angle |-> s.thumb_servo, hand |-> h, sleep |-> 20],
     [channel |-> 2, angle |-> s.middle_servo, hand |-> h, sleep |-> 10],
     [channel |-> 4, angle |-> s.ring_servo, hand |-> h, sleep |-> 10],
     [channel |-> 5, angle |-> s.pinky_servo, hand |-> h, sleep |-> 20] >>

\* finger_commands without the time.sleep after the index command
finger_commands_no_index_sleep(s, h) ==
  << [channel |-> 3, angle |-> s.thumb_servo, hand |-> h, sleep |-> 20],
     [channel |-> 1, angle |-> s.index_servo, hand |-> h, sleep |-> 0],
     [channel |-> 2, angle |-> s.middle_servo, hand |-> h, sleep |-> 10],
     [channel |-> 4, angle |-> s.ring_servo, hand |-> h, sleep |-> 10],
     [channel |-> 5, angle |-> s.pinky_servo, hand |-> h, sleep |-> 20] >>

\* the five finger commands of one hand in the order send_servo_angles writes
\* them: "3:{thumb_servo}!", "1:{index_servo}!", "2:{middle_servo}!",
\* "4:{ring_servo}!", "5:{pinky_servo}!"; sleep: the milliseconds of the
\* time.sleep that follows the write and flush of the command
finger_commands(s, h) ==
  << [channel |-> 3, angle |-> s.thumb_servo, hand |-> h, sleep |-> 20],
     [channel |-> 1, angle |-> s.index_servo, hand |-> h, sleep |-> 10],
     [channel |-> 2, angle |-> s.middle_servo, hand |-> h, sleep |-> 10],
     [channel |-> 4, angle |-> s.ring_servo, hand |-> h, sleep |-> 10],
     [channel |-> 5, angle |-> s.pinky_servo, hand |-> h, sleep |-> 20] >>

\* the try block of send_servo_angles for the hand number h with servo values s;
\* fail = 0: no write raises; fail = i: the i-th arduino.write / flush of this
\* hand raises and the except clause ends the pass
hand_pass(st, h, s, fail) ==
  LET reached_wrist == fail = 0 \/ fail = 6
      \* if not hasattr(...): last_wrist_angle = wrist_servo
      prev == IF st.has THEN st.last ELSE s.wrist_servo
      smoothed_wrist == smoothed_wrist_of(prev, s.wrist_servo)
      last_after == IF reached_wrist THEN smoothed_wrist ELSE st.last
  IN  [ has |-> st.has \/ reached_wrist,
        last |-> last_after,
        written |-> st.written
                     \o SubSeq(finger_commands(s, h), 1, IF reached_wrist THEN 5 ELSE fail - 1)
                     \o (IF fail = 0
                           THEN << [channel |-> 6, angle |-> smoothed_wrist, hand |-> h,
                                     sleep |-> 30] >>
                           ELSE << >>),
        report |-> Append(st.report,
                     [ failed |-> fail,
                       wrist_servo |-> s.wrist_servo,
                       had_last |-> st.has,
                       last_before |-> st.last,
                       last_after |-> last_after ]) ]

\* for_each_hand leaving the loop after the first hand
for_each_hand_first_only(multi_hand_landmarks, h, st) ==
  IF h > 1 \/ h > Len(multi_hand_landmarks)
    THEN {st}
    ELSE { hand_pass(st, h, s, fail) :
             s \in servos_of[multi_hand_landmarks[h]], fail \in 0..6 }

\* for_each_hand with the try block around the whole loop: a write that
\* raises ends the loop over the hands
RECURSIVE for_each_hand_stop_on_failure(_, _, _)
for_each_hand_stop_on_failure(multi_hand_landmarks, h, st) ==
  IF h > Len(multi_hand_landmarks)
    THEN {st}
    ELSE UNION { IF fail = 0
                   THEN for_each_hand_stop_on_failure(multi_hand_landmarks, h + 1,
                                                      hand_pass(st, h, s, fail))
                   ELSE {hand_pass(st, h, s, fail)} :
                 s \in servos_of[multi_hand_landmarks[h]], fail \in 0..6 }

\* the for loop of send_servo_angles from hand number h on
RECURSIVE for_each_hand(_, _, _)
for_each_hand(multi_hand_landmarks, h, st) ==
  IF h > Len(multi_hand_landmarks)
    THEN {st}
    ELSE UNION { for_each_hand(multi_hand_landmarks, h + 1, hand_pass(st, h, s, fail)) :
                   s \in servos_of[multi_hand_landmarks[h]], fail \in 0..6 }

send_servo_angles ==
  IF results = << >> \/ ~arduino_connected
    THEN UNCHANGED <<has_last_wrist_angle, last_wrist_angle, written, report>>
    ELSE \E st \in for_each_hand(results, 1,
                     [ has |-> has_last_wrist_angle, last |-> last_wrist_angle,
                       written |-> written, report |-> report ]) :
           /\ has_last_wrist_angle' = st.has
           /\ last_wrist_angle' = st.last
           /\ written' = st.written
           /\ report' = st.report

\* main(): connect_to_arduino(); on failure main returns
pca_connect ==
  /\ script = "camera_to_arduino_pca9685" /\ pc = "start"
  /\ \E ok \in BOOLEAN :
       /\ arduino_connected' = ok
       /\ pc' = IF ok THEN "open_camera" ELSE "done"
  /\ UNCHANGED <<exporter, game, script, results, has_last_wrist_angle, last_wrist_angle, written,
                 report, sent, probe_in, probe_out>>

\* main(): cv2.VideoCapture(CAMERA_INDEX); if not opened main returns
pca_open_camera ==
  /\ script = "camera_to_arduino_pca9685" /\ pc = "open_camera"
  /\ \E opened \in BOOLEAN : pc' = IF opened THEN "loop" ELSE "done"
  /\ UNCHANGED <<exporter, game, script, arduino_connected, results, has_last_wrist_angle,
                 last_wrist_angle, written, report, sent, probe_in, probe_out>>

\* main(): cap.read() ... hands.process(rgb_frame); a failed read leaves the loop
pca_read_frame ==
  /\ script = "camera_to_arduino_pca9685" /\ pc = "loop"
  /\ \/ /\ pc' = "cleanup"
        /\ UNCHANGED results
     \/ /\ \E frame \in Frames : results' = frame
        /\ pc' = "send"
  /\ UNCHANGED <<exporter, game, script, arduino_connected, has_last_wrist_angle, last_wrist_angle,
                 written, report, sent, probe_in, probe_out>>

\* pca_send with the wrist sent to neutral when no hand is in the frame
pca_send_centres_wrist ==
  /\ script = "camera_to_arduino_pca9685" /\ pc = "send"
  /\ IF results # << >>
       THEN send_servo_angles
       ELSE /\ written' = Append(written, [channel |-> 6, angle |-> 90, hand |-> 0,
                                              sleep |-> 30])
            /\ UNCHANGED <<has_last_wrist_angle, last_wrist_angle, report>>
  /\ pc' = "key"
  /\ UNCHANGED <<exporter, game, script, arduino_connected, results, sent, probe_in, probe_out>>

\* main(): if results.multi_hand_landmarks: send_servo_angles(results)
pca_send ==
  /\ script = "camera_to_arduino_pca9685" /\ pc = "send"
  /\ IF results # << >>
       THEN send_servo_angles
       ELSE UNCHANGED <<has_last_wrist_angle, last_wrist_angle, written, report>>
  /\ pc' = "key"
  /\ UNCHANGED <<exporter, game, script, arduino_connected, results, sent, probe_in, probe_out>>

\* main(): key = cv2.waitKey(1); 'q' leaves the loop; the iteration's results
\* and what was written for them are dropped with it
pca_key ==
  /\ script = "camera_to_arduino_pca9685" /\ pc = "key"
  /\ \E quit \in BOOLEAN : pc' = IF quit THEN "cleanup" ELSE "loop"
  /\ results' = << >>
  /\ written' = << >>
  /\ report' = << >>
  /\ UNCHANGED <<exporter, game, script, arduino_connected, has_last_wrist_angle,
                 last_wrist_angle, sent, probe_in, probe_out>>

\* main(): finally: cap.release(), arduino.close(), hands.close()
pca_cleanup ==
  /\ script = "camera_to_arduino_pca9685" /\ pc = "cleanup"
  /\ pc' = "done"
  /\ UNCHANGED <<exporter, game, script, arduino_connected, results, has_last_wrist_angle,
                 last_wrist_angle, written, report, sent, probe_in, probe_out>>

----------------------------------------------------------------------------
(* rock_paper_scissors_hand.py *)

\* the send_servo_command(servo_id, angle) calls of set_hand_position, in order
hand_position_commands(position) ==
  IF position = "paper"
    THEN << <<3, 120>>, <<1, 30>>, <<2, 30>>, <<4, 20>>, <<5, 20>>, <<6, 90>> >>
  ELSE IF position = "scissors"
    THEN << <<3, 170>>, <<1, 30>>, <<2, 30>>, <<4, 180>>, <<5, 175>>, <<6, 90>> >>
  ELSE IF position = "rock"
    THEN << <<3, 170>>, <<1, 180>>, <<2, 180>>, <<4, 180>>, <<5, 175>>, <<6, 90>> >>
  ELSE << >>

\* the elements of seq whose index is in keep, in order
RECURSIVE Pick(_, _, _)
Pick(seq, keep, i) ==
  IF i > Len(seq) THEN << >>
  ELSE (IF i \in keep THEN <<seq[i]>> ELSE << >>) \o Pick(seq, keep, i + 1)

\* set_hand_position(position): six send_servo_command calls; a call whose
\* write raises returns False and the next call is made all the same
set_hand_position(position, failing) ==
  LET cmds == hand_position_commands(position)
      ok == {i \in 1..Len(cmds) : arduino_connected /\ i \notin failing}
  IN  /\ written' = written \o
                      [i \in 1..Cardinality(ok) |->
                         [channel |-> Pick(cmds, ok, 1)[i][1],
                          angle |-> Pick(cmds, ok, 1)[i][2],
                          hand |-> 1, sleep |-> 50]]
      /\ report' = Append(report, [position |-> position, failing |-> failing])

\* main(): connect_to_arduino(); on failure main returns
rps_connect ==
  /\ script = "rock_paper_scissors_hand" /\ pc = "start"
  /\ \E ok \in BOOLEAN :
       /\ arduino_connected' = ok
       /\ pc' = IF ok THEN "move" ELSE "done"
  /\ UNCHANGED <<exporter, game, script, results, has_last_wrist_angle, last_wrist_angle, written,
                 report, sent, probe_in, probe_out>>

\* main(): move = get_random_move(); set_hand_position(move)
rps_move ==
  /\ script = "rock_paper_scissors_hand" /\ pc = "move"
  /\ \E move \in {"rock", "paper", "scissors"}, failing \in SUBSET (1..6) :
       set_hand_position(move, failing)
  /\ pc' = "cleanup"
  /\ UNCHANGED <<exporter, game, script, arduino_connected, results, has_last_wrist_angle,
                 last_wrist_angle, sent, probe_in, probe_out>>

\* main(): arduino.close()
rps_cleanup ==
  /\ script = "rock_paper_scissors_hand" /\ pc = "cleanup"
  /\ pc' = "done"
  /\ UNCHANGED <<exporter, game, script, arduino_connected, results, has_last_wrist_angle,
                 last_wrist_angle, written, report, sent, probe_in, probe_out>>

----------------------------------------------------------------------------
(* Telemetry: real_hand_tracking.py and hand_detection/unity_exporter.py.  *)
(* A landmark coordinate is a multiple of 1/128 of the normalised camera   *)
(* space (exact as a float).  real_hand_tracking.py sends positions as     *)
(* they are; the computed forearm positions are kept to the nearest 1/128. *)
(* unity_exporter.py sends x and y in pixels and z as it is; z is kept in  *)
(* tenths of 1/128, so that depth_change = 0.1 is the integer 128.         *)

LANDMARK_NAMES ==
  << "WRIST",
     "THUMB_CMC", "THUMB_MCP", "THUMB_IP", "THUMB_TIP",
     "INDEX_FINGER_MCP", "INDEX_FINGER_PIP", "INDEX_FINGER_DIP", "INDEX_FINGER_TIP",
     "MIDDLE_FINGER_MCP", "MIDDLE_FINGER_PIP", "MIDDLE_FINGER_DIP", "MIDDLE_FINGER_TIP",
     "RING_FINGER_MCP", "RING_FINGER_PIP", "RING_FINGER_DIP", "RING_FINGER_TIP",
     "PINKY_MCP", "PINKY_PIP", "PINKY_DIP", "PINKY_TIP" >>

forearm_names == <<"ELBOW", "FOREARM_MID", "FOREARM_QUARTER", "FOREARM_THREE_QUARTER">>

\* forearm_distances = [0.8, 0.6, 0.4, 0.2], in tenths
forearm_distances == <<8, 6, 4, 2>>

Sign(x) == IF x > 0 THEN 1 ELSE IF x < 0 THEN -1 ELSE 0

\* |c| / length * distance to the nearest 1/128: length^2 = len_sq, the
\* distance tenths / 10 is 128 * tenths / 10 units
forearm_offset(c, len_sq, tenths) ==
  Cardinality({ j \in 1..(13 * tenths + 1) :
                  25 * (2 * j - 1) * (2 * j - 1) * len_sq
                    <= (128 * tenths * Abs(c)) * (128 * tenths * Abs(c)) })

\* send_hand_data: the landmarks list built for one hand, forearm included
hand_data_landmarks(hand_landmarks) ==
  LET landmarks == [ idx \in 1..Len(hand_landmarks) |->
                       [ id |-> idx - 1, name |-> LANDMARK_NAMES[idx],
                         position |-> hand_landmarks[idx] ] ]
      wrist == landmarks[1].position
  IN  IF Len(landmarks) > 9
        THEN LET mcp_middle == landmarks[10].position
                 hand_direction == Sub(mcp_middle, wrist)
                 len_sq == Dot(hand_direction, hand_direction)
                 \* wrist + forearm_direction * distance; with length = 0 the
                 \* direction stays the zero vector
                 forearm_pos(tenths) ==
                   IF len_sq = 0
                     THEN wrist
                     ELSE [ c \in 1..3 |->
                              wrist[c] - Sign(hand_direction[c])
                                           * forearm_offset(hand_direction[c], len_sq, tenths) ]
             IN  landmarks \o
                   [ i \in 1..4 |->
                       [ id |-> 21 + (i - 1), name |-> forearm_names[i],
                         position |-> forearm_pos(forearm_distances[i]) ] ]
        ELSE landmarks

\* send_hand_data(results): the datagram it sends
multi_hand_data(res) ==
  [ hands |-> [ h \in 1..Len(res.multi_hand_landmarks) |->
                  [ hand_type |-> res.multi_handedness[h],
                    landmarks |-> hand_data_landmarks(res.multi_hand_landmarks[h]),
                    timestamp |-> "time.time()" ] ],
    timestamp |-> "time.time()" ]

\* img.shape of the webcam frame
img_width == 640
img_height == 480

\* HandTracker.find_positions(img, hand_no): [id, x, y, z]
find_positions(multi_hand_landmarks, hand_no) ==
  IF hand_no < Len(multi_hand_landmarks)
    THEN LET hand == multi_hand_landmarks[hand_no + 1]
         IN  [ k \in 1..Len(hand) |->
                 << k - 1,
                    Trunc(hand[k][1] * img_width, 128),
                    Trunc(hand[k][2] * img_height, 128),
                    10 * hand[k][3] >> ]
    ELSE << >>

\* HandTracker.get_landmark_name(landmark_id)
get_landmark_name(landmark_id) ==
  IF 0 <= landmark_id /\ landmark_id < Len(LANDMARK_NAMES)
    THEN LANDMARK_NAMES[landmark_id + 1]
    ELSE "Unknown"

\* wrist - point over the first landmark with this id, coordinate c; 0 if
\* there is none
reference_delta(landmarks, id, c) ==
  LET found == {i \in 1..Len(landmarks) : landmarks[i][1] = id}
  IN  IF found = {} THEN 0
      ELSE landmarks[1][c]
             - landmarks[CHOOSE i \in found : \A j \in found : i <= j][c]

\* img dimension * forearm_length_factor * fraction, the factor in tenths
scaled_reach(img_dim, tenths, num, den) == (img_dim * tenths * num) \div (10 * den)

\* floor of |avg| / magnitude * reach, m = (count * magnitude)^2
scaled_floor(sum, m, reach) ==
  Cardinality({k \in 1..reach : k * k * m <= (sum * reach) * (sum * reach)})

\* int(wrist + avg / magnitude * reach): truncation toward zero; where the
\* exact product is a non-zero integer and the normalised component is not
\* 1 or -1, its float lies at or just beside that integer
int_scaled(wrist, sum, m, reach) ==
  LET f == scaled_floor(sum, m, reach)
      exact == f * f * m = (sum * reach) * (sum * reach)
      unit == sum * sum = m
  IN  IF sum = 0 THEN {wrist}
      ELSE IF exact /\ unit THEN {wrist + Sign(sum) * f}
      ELSE IF sum > 0
        THEN (IF exact THEN {wrist + f - 1, wrist + f} ELSE {wrist + f})
      ELSE IF exact
        THEN (IF wrist - f > 0 THEN {wrist - f - 1, wrist - f}
              ELSE IF wrist - f = 0 THEN {0}
              ELSE {wrist - f, wrist - f + 1})
      ELSE IF wrist > f THEN {wrist - f - 1}
      ELSE {wrist - f}

\* UnityHandExporter._add_forearm_landmarks(landmarks, img): the lists it can
\* return
add_forearm_landmarks(landmarks) ==
  IF Len(landmarks) = 0 THEN {landmarks}
  ELSE
    LET wrist_x == landmarks[1][2]
        wrist_y == landmarks[1][3]
        wrist_z == landmarks[1][4]
        count == Cardinality({ id \in {9, 5, 17} :
                                 \E i \in 1..Len(landmarks) : landmarks[i][1] = id })
        \* count * avg_dx, count * avg_dy
        sum_dx == reference_delta(landmarks, 9, 2) + reference_delta(landmarks, 5, 2)
                    + reference_delta(landmarks, 17, 2)
        sum_dy == reference_delta(landmarks, 9, 3) + reference_delta(landmarks, 5, 3)
                    + reference_delta(landmarks, 17, 3)
        m == sum_dx * sum_dx + sum_dy * sum_dy
        \* forearm_length_factor = 0.5 if hand_orientation > 1 else 0.7
        tenths == IF Abs(sum_dy) > Abs(sum_dx) THEN 5 ELSE 7
    IN  IF count = 0 \/ m = 0 THEN {landmarks}
        ELSE
          { landmarks \o
              << <<21, elbow_x, elbow_y, wrist_z - 128>>,
                 <<22, Trunc(wrist_x + elbow_x, 2), Trunc(wrist_y + elbow_y, 2), wrist_z - 64>>,
                 <<23, quarter_x, quarter_y, wrist_z - 32>>,
                 <<24, three_quarter_x, three_quarter_y, wrist_z - 96>> >> :
              elbow_x \in int_scaled(wrist_x, sum_dx, m, scaled_reach(img_width, tenths, 1, 1)),
              elbow_y \in int_scaled(wrist_y, sum_dy, m, scaled_reach(img_height, tenths, 1, 1)),
              quarter_x \in int_scaled(wrist_x, sum_dx, m, scaled_reach(img_width, tenths, 1, 4)),
              quarter_y \in int_scaled(wrist_y, sum_dy, m, scaled_reach(img_height, tenths, 1, 4)),
              three_quarter_x \in int_scaled(wrist_x, sum_dx, m, scaled_reach(img_width, tenths, 3, 4)),
              three_quarter_y \in int_scaled(wrist_y, sum_dy, m, scaled_reach(img_height, tenths, 3, 4)) }

\* _tracking_loop: the hands_data lists the loop over the detected hands can
\* build, from hand index hand_idx on
RECURSIVE tracking_hands_data(_, _, _)
tracking_hands_data(res, hand_idx, hands_data) ==
  IF hand_idx >= Len(res.multi_hand_landmarks) THEN {hands_data}
  ELSE
    LET hand_type == IF hand_idx < Len(res.multi_handedness)
                       THEN res.multi_handedness[hand_idx + 1] ELSE "Unknown"
        landmarks == find_positions(res.multi_hand_landmarks, hand_idx)
    IN  IF landmarks = << >>
          THEN tracking_hands_data(res, hand_idx + 1, hands_data)
          ELSE UNION { tracking_hands_data(res, hand_idx + 1,
                         Append(hands_data, [ hand_type |-> hand_type,
                                              landmarks |-> landmarks_with_forearm ])) :
                       landmarks_with_forearm \in add_forearm_landmarks(landmarks) }

\* _send_to_unity_multi(hands_data): the datagram it builds
unity_packet(hands_data) ==
  [ timestamp |-> "time.time()",
    hands |-> [ h \in 1..Len(hands_data) |->
                  [ hand_type |-> hands_data[h].hand_type,
                    landmarks |->
                      [ k \in 1..Len(hands_data[h].landmarks) |->
                          LET lm == hands_data[h].landmarks[k]
                              lm_id == lm[1]
                          IN  [ id |-> lm_id,
                                name |-> IF lm_id < 21 THEN get_landmark_name(lm_id)
                                         ELSE IF lm_id <= 24 THEN forearm_names[lm_id - 20]
                                         ELSE "UNKNOWN",
                                position |-> <<lm[2], lm[3], lm[4]>> ] ] ] ] ]

\* the hands of the telemetry frames: 21 landmarks each, the wrist at
\* (64, 80, 0) / 128
Shift(hand, by) == [i \in 1..Len(hand) |-> Add(hand[i], by)]

PalmUpright == << <<-2, -8, 0>>, <<0, -8, -1>>, <<1, -8, 0>>, <<2, -8, 0>> >>
PalmSideways == << <<6, -2, 0>>, <<6, 0, 0>>, <<6, 1, 0>>, <<6, 2, 0>> >>
PalmDiagonal == << <<3, -5, 0>>, <<4, -4, 0>>, <<5, -3, 0>>, <<6, -3, 0>> >>
\* the palm straight in front of the wrist, pointing at the camera
PalmForeshortened == << <<-2, 0, -4>>, <<0, 0, -4>>, <<1, 0, -4>>, <<2, 0, -4>> >>

TelemetryHands ==
  { Shift(FullHand(palm, <<Slight, Straight, Slight, Fist, Slight>>), <<64, 80, 0>>) :
      palm \in {PalmUpright, PalmSideways, PalmDiagonal, PalmForeshortened, PalmOnWrist} }

\* results of hands.process(...) in the telemetry scripts: the landmarks and
\* the handedness label of 0..max_num_hands hands
TelemetryFrames ==
  UNION { { [ multi_hand_landmarks |-> lms, multi_handedness |-> labels ] :
              lms \in [1..n -> TelemetryHands], labels \in [1..n -> {"Left", "Right"}] } :
          n \in 0..max_num_hands }

----------------------------------------------------------------------------
(* real_hand_tracking.py *)

\* main(): cv2.VideoCapture(CAMERA_INDEX); if not opened main returns
rht_open_camera ==
  /\ script = "real_hand_tracking" /\ pc = "start"
  /\ \E opened \in BOOLEAN : pc' = IF opened THEN "loop" ELSE "done"
  /\ UNCHANGED <<exporter, game, script, arduino_connected, results, has_last_wrist_angle,
                 last_wrist_angle, written, report, sent, probe_in, probe_out>>

\* main(): cap.read() ... hands.process(rgb_frame); a failed read leaves the loop
rht_read_frame ==
  /\ script = "real_hand_tracking" /\ pc = "loop"
  /\ \/ /\ pc' = "cleanup"
        /\ UNCHANGED results
     \/ /\ \E frame \in TelemetryFrames : results' = frame
        /\ pc' = "send"
  /\ UNCHANGED <<exporter, game, script, arduino_connected, has_last_wrist_angle, last_wrist_angle,
                 written, report, sent, probe_in, probe_out>>

\* rht_send with a datagram sent for a frame without hands as well
rht_send_every_frame ==
  /\ script = "real_hand_tracking" /\ pc = "send"
  /\ \/ /\ sent' = Append(sent, multi_hand_data(results))
        /\ pc' = "key"
     \/ /\ pc' = "cleanup"
        /\ UNCHANGED sent
  /\ UNCHANGED <<exporter, game, script, arduino_connected, results, has_last_wrist_angle,
                 last_wrist_angle, written, report, probe_in, probe_out>>

\* main(): if results.multi_hand_landmarks: send_hand_data(results); an
\* exception of sock.sendto leaves the loop through the finally block
rht_send ==
  /\ script = "real_hand_tracking" /\ pc = "send"
  /\ IF results.multi_hand_landmarks # << >>
       THEN \/ /\ sent' = Append(sent, multi_hand_data(results))
               /\ pc' = "key"
            \/ /\ pc' = "cleanup"
               /\ UNCHANGED sent
       ELSE /\ pc' = "key"
            /\ UNCHANGED sent
  /\ UNCHANGED <<exporter, game, script, arduino_connected, results, has_last_wrist_angle,
                 last_wrist_angle, written, report, probe_in, probe_out>>

\* main(): key = cv2.waitKey(1); 'q' leaves the loop; the iteration's results
\* and datagram are dropped with it
rht_key ==
  /\ script = "real_hand_tracking" /\ pc = "key"
  /\ \E quit \in BOOLEAN : pc' = IF quit THEN "cleanup" ELSE "loop"
  /\ results' = << >>
  /\ sent' = << >>
  /\ UNCHANGED <<exporter, game, script, arduino_connected, has_last_wrist_angle, last_wrist_angle,
                 written, report, probe_in, probe_out>>

\* main(): finally: cap.release(), cv2.destroyAllWindows(), sock.close()
rht_cleanup ==
  /\ script = "real_hand_tracking" /\ pc = "cleanup"
  /\ pc' = "done"
  /\ results' = << >>
  /\ sent' = << >>
  /\ UNCHANGED <<exporter, game, script, arduino_connected, has_last_wrist_angle, last_wrist_angle,
                 written, report, probe_in, probe_out>>

----------------------------------------------------------------------------
(* hand_detection/unity_exporter.py *)

\* number of loop threads a UnityHandExporter starts
MaxLoops == 2

\* frames a loop thread begins
MaxFrames == 1

\* before the first start_tracking(): no thread
NoLoops == [t \in 1..MaxLoops |-> [pc |-> "unstarted", cap |-> "none", frames |-> 0]]

\* start_tracking() and the head of _tracking_loop: cv2.VideoCapture(0); if
\* not opened the thread returns
unity_start_tracking ==
  /\ script = "unity_exporter" /\ pc = "start"
  /\ \E opened \in BOOLEAN : pc' = IF opened THEN "loop" ELSE "done"
  /\ UNCHANGED <<exporter, game, script, arduino_connected, results, has_last_wrist_angle,
                 last_wrist_angle, written, report, sent, probe_in, probe_out>>

\* _tracking_loop: while self.is_tracking: cap.read(); tracker.find_hands(img).
\* stop_tracking() ends the loop; a failed read sleeps and tries again
unity_read_frame ==
  /\ script = "unity_exporter" /\ pc = "loop"
  /\ \/ /\ pc' = "cleanup"
        /\ UNCHANGED results
     \/ UNCHANGED <<pc, results>>
     \/ /\ \E frame \in TelemetryFrames : results' = frame
        /\ pc' = "send"
  /\ UNCHANGED <<exporter, game, script, arduino_connected, has_last_wrist_angle, last_wrist_angle,
                 written, report, sent, probe_in, probe_out>>

\* _tracking_loop: if results.multi_hand_landmarks: ... if hands_data:
\* self._send_to_unity_multi(hands_data); an exception of socket.sendto is
\* caught and printed
unity_send ==
  /\ script = "unity_exporter" /\ pc = "send"
  /\ IF results.multi_hand_landmarks # << >>
       THEN \E hands_data \in tracking_hands_data(results, 0, << >>) :
              IF hands_data # << >>
                THEN \/ sent' = Append(sent, unity_packet(hands_data))
                     \/ UNCHANGED sent
                ELSE UNCHANGED sent
       ELSE UNCHANGED sent
  /\ pc' = "key"
  /\ UNCHANGED <<exporter, game, script, arduino_connected, results, has_last_wrist_angle,
                 last_wrist_angle, written, report, probe_in, probe_out>>

\* _tracking_loop: cv2.waitKey(1); 'q' sets is_tracking to False; the
\* iteration's results and datagram are dropped with it
unity_key ==
  /\ script = "unity_exporter" /\ pc = "key"
  /\ \E quit \in BOOLEAN : pc' = IF quit THEN "cleanup" ELSE "loop"
  /\ results' = << >>
  /\ sent' = << >>
  /\ UNCHANGED <<exporter, game, script, arduino_connected, has_last_wrist_angle, last_wrist_angle,
                 written, report, probe_in, probe_out>>

\* _tracking_loop: cap.release(), cv2.destroyAllWindows()
unity_cleanup ==
  /\ script = "unity_exporter" /\ pc = "cleanup"
  /\ pc' = "done"
  /\ UNCHANGED <<exporter, game, script, arduino_connected, results, has_last_wrist_angle,
                 last_wrist_angle, written, report, sent, probe_in, probe_out>>

----------------------------------------------------------------------------
(* camera_to_arduino.py *)

\* sin and cos of (2k - 180) degrees, scaled by 1000000, k = 0..180: the
\* atan2 angle at which (angle + 180) / 2 reaches k
SinEvenTable ==
  <<
      0, -34899, -69756, -104528, -139173, -173648, -207912, -241922,
      -275637, -309017, -342020, -374607, -406737, -438371, -469472, -500000,
      -529919, -559193, -587785, -615661, -642788, -669131, -694658, -719340,
      -743145, -766044, -788011, -809017, -829038, -848048, -866025, -882948,
      -898794, -913545, -927184, -939693, -951057, -961262, -970296, -978148,
      -984808, -990268, -994522, -997564, -999391, -1000000, -999391, -997564,
      -994522, -990268, -984808, -978148, -970296, -961262, -951057, -939693,
      -927184, -913545, -898794, -882948, -866025, -848048, -829038, -809017,
      -788011, -766044, -743145, -719340, -694658, -669131, -642788, -615661,
      -587785, -559193, -529919, -500000, -469472, -438371, -406737, -374607,
      -342020, -309017, -275637, -241922, -207912, -173648, -139173, -104528,
      -69756, -34899, 0, 34899, 69756, 104528, 139173, 173648,
      207912, 241922, 275637, 309017, 342020, 374607, 406737, 438371,
      469472, 500000, 529919, 559193, 587785, 615661, 642788, 669131,
      694658, 719340, 743145, 766044, 788011, 809017, 829038, 848048,
      866025, 882948, 898794, 913545, 927184, 939693, 951057, 961262,
      970296, 978148, 984808, 990268, 994522, 997564, 999391, 1000000,
      999391, 997564, 994522, 990268, 984808, 978148, 970296, 961262,
      951057, 939693, 927184, 913545, 898794, 882948, 866025, 848048,
      829038, 809017, 788011, 766044, 743145, 719340, 694658, 669131,
      642788, 615661, 587785, 559193, 529919, 500000, 469472, 438371,
      406737, 374607, 342020, 309017, 275637, 241922, 207912, 173648,
      139173, 104528, 69756, 34899, 0
  >>

CosEvenTable ==
  <<
      -1000000, -999391, -997564, -994522, -990268, -984808, -978148, -970296,
      -961262, -951057, -939693, -927184, -913545, -898794, -882948, -866025,
      -848048, -829038, -809017, -788011, -766044, -743145, -719340, -694658,
      -669131, -642788, -615661, -587785, -559193, -529919, -500000, -469472,
      -438371, -406737, -374607, -342020, -309017, -275637, -241922, -207912,
      -173648, -139173, -104528, -69756, -34899, 0, 34899, 69756,
      104528, 139173, 173648, 207912, 241922, 275637, 309017, 342020,
      374607, 406737, 438371, 469472, 500000, 529919, 559193, 587785,
      615661, 642788, 669131, 694658, 719340, 743145, 766044, 788011,
      809017, 829038, 848048, 866025, 882948, 898794, 913545, 927184,
      939693, 951057, 961262, 970296, 978148, 984808, 990268, 994522,
      997564, 999391, 1000000, 999391, 997564, 994522, 990268, 984808,
      978148, 970296, 961262, 951057, 939693, 927184, 913545, 898794,
      882948, 866025, 848048, 829038, 809017, 788011, 766044, 743145,
      719340, 694658, 669131, 642788, 615661, 587785, 559193, 529919,
      500000, 469472, 438371, 406737, 374607, 342020, 309017, 275637,
      241922, 207912, 173648, 139173, 104528, 69756, 34899, 0,
      -34899, -69756, -104528, -139173, -173648, -207912, -241922, -275637,
      -309017, -342020, -374607, -406737, -438371, -469472, -500000, -529919,
      -559193, -587785, -615661, -642788, -669131, -694658, -719340, -743145,
      -766044, -788011, -809017, -829038, -848048, -866025, -882948, -898794,
      -913545, -927184, -939693, -951057, -961262, -970296, -978148, -984808,
      -990268, -994522, -997564, -999391, -1000000
  >>

\* camera_to_arduino.calculate_finger_angle: the values of
\* int(max(0, min(179, 90 + (angle - 90)))), angle the bend between MCP->PIP
\* and PIP->DIP; at an exact integer angle other than 0, 90 and 180 the
\* rounding of the float decides between that integer and the one below
cta_calculate_finger_angle(landmarks, palm_idx, mcp_idx, pip_idx, dip_idx, tip_idx) ==
  IF \E i \in {palm_idx, mcp_idx, pip_idx, dip_idx, tip_idx} : ~HasIndex(landmarks, i)
    THEN {90}
    ELSE LET mcp_to_pip == Sub(At(landmarks, pip_idx), At(landmarks, mcp_idx))
             pip_to_dip == Sub(At(landmarks, dip_idx), At(landmarks, pip_idx))
             dot_product == Dot(mcp_to_pip, pip_to_dip)
             m == Dot(mcp_to_pip, mcp_to_pip) * Dot(pip_to_dip, pip_to_dip)
             \* floor of 180 - angle
             s == Cardinality({k \in 1..180 : CosAtLeast(k, dot_product, m)})
         IN  IF m = 0 \/ dot_product = 0 THEN {90}
             ELSE IF CosExactly(s, dot_product, m)
               THEN {Max2(0, 180 - s - 1), Min2(179, 180 - s)}
               ELSE {Min2(179, 179 - s)}

\* camera_to_arduino.calculate_hand_rotation:
\* int(max(0, min(179, (degrees(atan2(dy, dx)) + 180) / 2))) for the vector
\* from the wrist to the middle finger MCP
cta_calculate_hand_rotation(landmarks) ==
  IF ~HasIndex(landmarks, 0) \/ ~HasIndex(landmarks, 9) THEN 90
  ELSE LET dx == At(landmarks, 9)[1] - At(landmarks, 0)[1]
           dy == At(landmarks, 9)[2] - At(landmarks, 0)[2]
           \* atan2(dy, dx) >= (2k - 180) degrees
           reached(k) ==
             LET cross == CosEvenTable[k + 1] * dy - SinEvenTable[k + 1] * dx
             IN  IF k >= 90 THEN dy >= 0 /\ cross >= 0 ELSE dy >= 0 \/ cross >= 0
       IN  IF dx = 0 /\ dy = 0 THEN 90
           ELSE Min2(179, Cardinality({k \in 1..179 : reached(k)}))

\* the line "T:..,I:..,M:..,R:..,P:..,H:..\n" send_servo_angles builds for a hand
cta_data(landmarks) ==
  { [ T |-> t, I |-> i, M |-> m, R |-> r, P |-> p,
      H |-> cta_calculate_hand_rotation(landmarks) ] :
      t \in cta_calculate_finger_angle(landmarks, 0, 1, 2, 3, 4),
      i \in cta_calculate_finger_angle(landmarks, 0, 5, 6, 7, 8),
      m \in cta_calculate_finger_angle(landmarks, 0, 9, 10, 11, 12),
      r \in cta_calculate_finger_angle(landmarks, 0, 13, 14, 15, 16),
      p \in cta_calculate_finger_angle(landmarks, 0, 17, 18, 19, 20) }

\* cta_data of every hand of the frame loop, evaluated once
cta_data_of == [landmarks \in Hands |-> cta_data(landmarks)]

\* the for loop of camera_to_arduino.send_servo_angles from hand number h on:
\* one arduino.write per hand; a write that raises is caught and printed
RECURSIVE cta_for_each_hand(_, _, _)
cta_for_each_hand(multi_hand_landmarks, h, st) ==
  IF h > Len(multi_hand_landmarks)
    THEN {st}
    ELSE UNION { cta_for_each_hand(multi_hand_landmarks, h + 1,
                   [ written |-> IF failed THEN st.written
                                 ELSE Append(st.written, [hand |-> h, data |-> data, sleep |-> 0]),
                     report |-> Append(st.report, [failed |-> failed]) ]) :
                 data \in cta_data_of[multi_hand_landmarks[h]], failed \in BOOLEAN }

\* camera_to_arduino.send_servo_angles(results)
cta_send_servo_angles ==
  IF results = << >> \/ ~arduino_connected
    THEN UNCHANGED <<written, report>>
    ELSE \E st \in cta_for_each_hand(results, 1, [written |-> written, report |-> report]) :
           /\ written' = st.written
           /\ report' = st.report

\* the module-level try block: serial.Serial(ARDUINO_PORT, ...); on failure
\* arduino_connected = False and the script goes on
cta_connect ==
  /\ script = "camera_to_arduino" /\ pc = "start"
  /\ \E ok \in BOOLEAN : arduino_connected' = ok
  /\ pc' = "open_camera"
  /\ UNCHANGED <<exporter, game, script, results, has_last_wrist_angle, last_wrist_angle, written,
                 report, sent, probe_in, probe_out>>

\* main(): cv2.VideoCapture(CAMERA_INDEX); if not opened main returns
cta_open_camera ==
  /\ script = "camera_to_arduino" /\ pc = "open_camera"
  /\ \E opened \in BOOLEAN : pc' = IF opened THEN "loop" ELSE "done"
  /\ UNCHANGED <<exporter, game, script, arduino_connected, results, has_last_wrist_angle,
                 last_wrist_angle, written, report, sent, probe_in, probe_out>>

\* main(): cap.read() ... hands.process(rgb_frame); a failed read leaves the loop
cta_read_frame ==
  /\ script = "camera_to_arduino" /\ pc = "loop"
  /\ \/ /\ pc' = "cleanup"
        /\ UNCHANGED results
     \/ /\ \E frame \in Frames : results' = frame
        /\ pc' = "send"
  /\ UNCHANGED <<exporter, game, script, arduino_connected, has_last_wrist_angle, last_wrist_angle,
                 written, report, sent, probe_in, probe_out>>

\* main(): if results.multi_hand_landmarks: send_servo_angles(results)
cta_send ==
  /\ script = "camera_to_arduino" /\ pc = "send"
  /\ IF results # << >>
       THEN cta_send_servo_angles
       ELSE UNCHANGED <<written, report>>
  /\ pc' = "key"
  /\ UNCHANGED <<exporter, game, script, arduino_connected, results, has_last_wrist_angle,
                 last_wrist_angle, sent, probe_in, probe_out>>

\* main(): key = cv2.waitKey(1); 'q' leaves the loop; the iteration's results
\* and what was written for them are dropped with it
cta_key ==
  /\ script = "camera_to_arduino" /\ pc = "key"
  /\ \E quit \in BOOLEAN : pc' = IF quit THEN "cleanup" ELSE "loop"
  /\ results' = << >>
  /\ written' = << >>
  /\ report' = << >>
  /\ UNCHANGED <<exporter, game, script, arduino_connected, has_last_wrist_angle,
                 last_wrist_angle, sent, probe_in, probe_out>>

\* main(): finally: cap.release(), arduino.close(), hands.close()
cta_cleanup ==
  /\ script = "camera_to_arduino" /\ pc = "cleanup"
  /\ pc' = "done"
  /\ UNCHANGED <<exporter, game, script, arduino_connected, results, has_last_wrist_angle,
                 last_wrist_angle, written, report, sent, probe_in, probe_out>>

----------------------------------------------------------------------------
(* rps_game.py *)

\* the game state at module load
NewGame ==
  [ player_score |-> 0, robot_score |-> 0, ties |-> 0,
    current_player_gesture |-> "None", current_robot_gesture |-> "None",
    game_result |-> "None", countdown_active |-> FALSE ]

\* rounds after which SPACE starts no further countdown
MaxRounds == 2

\* detect_gesture(hand_landmarks): a finger is extended when its tip lies
\* above its PIP joint
detect_gesture(landmarks) ==
  LET index_extended == At(landmarks, 8)[2] < At(landmarks, 6)[2]
      middle_extended == At(landmarks, 12)[2] < At(landmarks, 10)[2]
      ring_extended == At(landmarks, 16)[2] < At(landmarks, 14)[2]
      pinky_extended == At(landmarks, 20)[2] < At(landmarks, 18)[2]
      extended_fingers ==
        Cardinality({f \in 1..4 : <<index_extended, middle_extended,
                                    ring_extended, pinky_extended>>[f]})
  IN  IF extended_fingers = 0 THEN "rock"
      ELSE IF extended_fingers >= 4 THEN "paper"
      ELSE IF extended_fingers = 2 /\ index_extended /\ middle_extended THEN "scissors"
      ELSE "None"

\* determine_winner(player, robot)
determine_winner(player, robot) ==
  LET winning_combinations ==
        [rock |-> "scissors", scissors |-> "paper", paper |-> "rock"]
  IN  IF player = robot THEN "tie"
      ELSE IF winning_combinations[player] = robot THEN "player"
      ELSE "robot"

\* the commands of send_robot_gesture(gesture): <<channel, angle>>
robot_gesture_commands(gesture) ==
  IF gesture = "rock"
    THEN << <<0, 0>>, <<1, 0>>, <<2, 0>>, <<3, 0>>, <<4, 0>> >>
  ELSE IF gesture = "paper"
    THEN << <<0, 180>>, <<1, 180>>, <<2, 180>>, <<3, 180>>, <<4, 180>> >>
  ELSE << <<0, 0>>, <<1, 180>>, <<2, 180>>, <<3, 0>>, <<4, 0>> >>

\* the hands of the game: paper, rock, scissors and a pointing index finger
GameHands ==
  { FullHand(PalmCentre, pose) :
      pose \in { <<Straight, Straight, Straight, Straight, Straight>>,
                 <<Fist, Fist, Fist, Fist, Fist>>,
                 <<Fist, Straight, Straight, Fist, Fist>>,
                 <<Straight, Straight, Fist, Fist, Fist>> } }

\* results.multi_hand_landmarks with max_num_hands=1
GameFrames == { << >> } \cup { <<landmarks>> : landmarks \in GameHands }

\* main(): connect_to_arduino(); the game goes on without the connection
game_connect ==
  /\ script = "rps_game" /\ pc = "start"
  /\ \E ok \in BOOLEAN : arduino_connected' = ok
  /\ pc' = "open_camera"
  /\ UNCHANGED <<exporter, game, script, results, has_last_wrist_angle, last_wrist_angle, written,
                 report, sent, probe_in, probe_out>>

\* main(): cv2.VideoCapture(CAMERA_INDEX); if not opened main returns
game_open_camera ==
  /\ script = "rps_game" /\ pc = "open_camera"
  /\ \E opened \in BOOLEAN : pc' = IF opened THEN "loop" ELSE "done"
  /\ UNCHANGED <<exporter, game, script, arduino_connected, results, has_last_wrist_angle,
                 last_wrist_angle, written, report, sent, probe_in, probe_out>>

\* main(): cap.read(); hands.process(rgb_frame); current_player_gesture is
\* detect_gesture of the last hand, None without a hand; a failed read leaves
\* the loop
game_read_frame ==
  /\ script = "rps_game" /\ pc = "loop"
  /\ \/ /\ pc' = "cleanup"
        /\ UNCHANGED <<results, game>>
     \/ /\ \E frame \in GameFrames :
             /\ results' = frame
             /\ game' = [game EXCEPT !.current_player_gesture =
                           IF frame = << >> THEN "None"
                           ELSE detect_gesture(frame[Len(frame)])]
        /\ pc' = "countdown"
  /\ UNCHANGED <<exporter, script, arduino_connected, has_last_wrist_angle, last_wrist_angle,
                 written, report, sent, probe_in, probe_out>>

\* main(): if countdown_active: once COUNTDOWN_DURATION has elapsed the round
\* is played: randomize_robot_gesture(), send_robot_gesture(),
\* determine_winner() and the score.  send_robot_gesture writes nothing
\* without the connection; fail = i: its i-th arduino.write / flush raises
\* and the exception leaves main
game_countdown ==
  /\ script = "rps_game" /\ pc = "countdown"
  /\ IF ~game.countdown_active
       THEN /\ pc' = "key"
            /\ UNCHANGED <<game, written>>
       ELSE \E elapsed \in BOOLEAN :
              IF ~elapsed
                THEN /\ pc' = "key"
                     /\ UNCHANGED <<game, written>>
              ELSE IF game.current_player_gesture = "None"
                THEN /\ game' = [game EXCEPT !.countdown_active = FALSE,
                                             !.game_result = "None",
                                             !.current_robot_gesture = "None"]
                     /\ pc' = "key"
                     /\ UNCHANGED written
              ELSE \E robot \in {"rock", "paper", "scissors"},
                      fail \in (IF arduino_connected THEN 0..5 ELSE {0}) :
                     LET commands == robot_gesture_commands(robot)
                         done == IF ~arduino_connected THEN 0
                                 ELSE IF fail = 0 THEN 5 ELSE fail - 1
                         result == determine_winner(game.current_player_gesture, robot)
                     IN  /\ written' = written \o
                                         [i \in 1..done |->
                                            [channel |-> commands[i][1],
                                             angle |-> commands[i][2], hand |-> 1,
                                             sleep |-> 20]]
                         /\ IF fail # 0
                              THEN /\ game' = [game EXCEPT !.countdown_active = FALSE,
                                                           !.current_robot_gesture = robot]
                                   /\ pc' = "raised"
                              ELSE /\ game' =
                                        [game EXCEPT
                                           !.countdown_active = FALSE,
                                           !.current_robot_gesture = robot,
                                           !.game_result = result,
                                           !.player_score = @ + (IF result = "player" THEN 1 ELSE 0),
                                           !.robot_score = @ + (IF result = "robot" THEN 1 ELSE 0),
                                           !.ties = @ + (IF result = "tie" THEN 1 ELSE 0)]
                                   /\ pc' = "key"
  /\ UNCHANGED <<exporter, script, arduino_connected, results, has_last_wrist_angle,
                 last_wrist_angle, report, sent, probe_in, probe_out>>

\* main(): key = cv2.waitKey(1): 'q' leaves the loop, SPACE starts a
\* countdown unless one is active, 'r' resets the scores; the iteration's
\* results and what was written for them are dropped with it
game_key ==
  /\ script = "rps_game" /\ pc = "key"
  /\ \E key \in {"q", " ", "r", "none"} :
       /\ pc' = IF key = "q" THEN "cleanup" ELSE "loop"
       /\ game' =
            IF key = " " /\ ~game.countdown_active
                 /\ game.player_score + game.robot_score + game.ties < MaxRounds
              THEN [game EXCEPT !.countdown_active = TRUE, !.game_result = "None",
                                !.current_robot_gesture = "None"]
            ELSE IF key = "r"
              THEN [game EXCEPT !.player_score = 0, !.robot_score = 0, !.ties = 0,
                                !.game_result = "None", !.current_robot_gesture = "None"]
            ELSE game
  /\ results' = << >>
  /\ written' = << >>
  /\ UNCHANGED <<exporter, script, arduino_connected, has_last_wrist_angle, last_wrist_angle,
                 report, sent, probe_in, probe_out>>

\* main(): cap.release(), cv2.destroyAllWindows(), hands.close(), arduino.close()
game_cleanup ==
  /\ script = "rps_game" /\ pc = "cleanup"
  /\ pc' = "done"
  /\ UNCHANGED <<exporter, game, script, arduino_connected, results, has_last_wrist_angle,
                 last_wrist_angle, written, report, sent, probe_in, probe_out>>

----------------------------------------------------------------------------
(* The three scripts that drive the actuator *)

ActuatorScripts == {"camera_to_arduino", "camera_to_arduino_pca9685", "rps_game"}

InitActuators ==
  /\ script \in ActuatorScripts
  /\ pc = "start"
  /\ arduino_connected = FALSE
  /\ results = << >>
  /\ has_last_wrist_angle = FALSE
  /\ last_wrist_angle = 0
  /\ written = << >>
  /\ report = << >>
  /\ sent = << >>
  /\ probe_in = 0
  /\ probe_out = << >>
  /\ game = NewGame
  /\ is_tracking = FALSE
  /\ tracking_thread = 0
  /\ loops = NoLoops

NextActuators ==
  \/ cta_connect
  \/ cta_open_camera
  \/ cta_read_frame
  \/ cta_send
  \/ cta_key
  \/ cta_cleanup
  \/ pca_connect
  \/ pca_open_camera
  \/ pca_read_frame
  \/ pca_send
  \/ pca_key
  \/ pca_cleanup
  \/ game_connect
  \/ game_open_camera
  \/ game_read_frame
  \/ game_countdown
  \/ game_key
  \/ game_cleanup

SpecActuators == InitActuators /\ [][NextActuators]_vars

----------------------------------------------------------------------------
(* The calibration lines of send_servo_angles on their own: one input      *)
(* angle, the six servo values computed from it.                           *)

apply_calibration ==
  /\ script = "calibration" /\ pc = "start"
  /\ probe_out' = [ thumb_servo |-> thumb_servo_of(probe_in),
                    index_servo |-> index_servo_of(probe_in),
                    middle_servo |-> middle_servo_of(probe_in),
                    ring_servo |-> ring_servo_of(probe_in),
                    pinky_servo |-> pinky_servo_of(probe_in),
                    wrist_servo |-> wrist_servo_of(probe_in) ]
  /\ pc' = "done"
  /\ UNCHANGED <<exporter, game, script, arduino_connected, results, has_last_wrist_angle,
                 last_wrist_angle, written, report, sent, probe_in>>

----------------------------------------------------------------------------
(* send_servo_angles on its own: one call, for a frame and a smoothing     *)
(* state given at the start.                                               *)

call_send_servo_angles ==
  /\ script = "send_servo_angles" /\ pc = "start"
  /\ send_servo_angles
  /\ pc' = "done"
  /\ UNCHANGED <<exporter, game, script, arduino_connected, results, sent, probe_in, probe_out>>

----------------------------------------------------------------------------
Scripts ==
  { "camera_to_arduino_pca9685", "rock_paper_scissors_hand",
    "real_hand_tracking", "unity_exporter" }

Init ==
  /\ script \in Scripts
  /\ pc = "start"
  /\ arduino_connected = FALSE
  /\ results = << >>
  /\ has_last_wrist_angle = FALSE
  /\ last_wrist_angle = 0
  /\ written = << >>
  /\ report = << >>
  /\ sent = << >>
  /\ probe_in = 0
  /\ probe_out = << >>
  /\ game = NewGame
  /\ is_tracking = FALSE
  /\ tracking_thread = 0
  /\ loops = NoLoops

Next ==
  \/ pca_connect
  \/ pca_open_camera
  \/ pca_read_frame
  \/ pca_send
  \/ pca_key
  \/ pca_cleanup
  \/ rps_connect
  \/ rps_move
  \/ rps_cleanup
  \/ rht_open_camera
  \/ rht_read_frame
  \/ rht_send
  \/ rht_key
  \/ rht_cleanup
  \/ unity_start_tracking
  \/ unity_read_frame
  \/ unity_send
  \/ unity_key
  \/ unity_cleanup

Spec == Init /\ [][Next]_vars

\* every integer angle the angle functions can return, through the calibration
InitMap ==
  /\ script = "calibration"
  /\ pc = "start"
  /\ arduino_connected = FALSE
  /\ results = << >>
  /\ has_last_wrist_angle = FALSE
  /\ last_wrist_angle = 0
  /\ written = << >>
  /\ report = << >>
  /\ sent = << >>
  /\ probe_in \in 0..180
  /\ probe_out = << >>
  /\ game = NewGame
  /\ is_tracking = FALSE
  /\ tracking_thread = 0
  /\ loops = NoLoops

NextMap == apply_calibration

\* every frame of WideFrames against every value of the smoothing state
InitSend ==
  /\ script = "send_servo_angles"
  /\ pc = "start"
  /\ arduino_connected = TRUE
  /\ results \in WideFrames
  /\ has_last_wrist_angle \in BOOLEAN
  /\ last_wrist_angle \in (IF has_last_wrist_angle THEN 0..180 ELSE {0})
  /\ written = << >>
  /\ report = << >>
  /\ sent = << >>
  /\ probe_in = 0
  /\ probe_out = << >>
  /\ game = NewGame
  /\ is_tracking = FALSE
  /\ tracking_thread = 0
  /\ loops = NoLoops

NextSend == call_send_servo_angles

SpecSend == InitSend /\ [][NextSend]_vars

SpecMap == InitMap /\ [][NextMap]_vars

----------------------------------------------------------------------------
(* The angle functions on their own: one call of calculate_finger_angle    *)
(* (of either actuator script) for the joints of one finger, or the wrist  *)
(* lines of send_servo_angles for one hand.                                *)

\* largest coordinate of a finger segment
MaxSegment == 2

\* largest sideways shift of the index finger MCP joint
MaxShift == 280

SegmentVectors ==
  { <<x, y, z>> : x \in -MaxSegment..MaxSegment, y \in -MaxSegment..MaxSegment, z \in -1..1 }

\* landmarks 0..4 of a hand: palm, MCP, PIP = MCP + a, DIP = PIP + b and
\* TIP = DIP + b, DIP or PIP; cut to four landmarks the tip is missing
FingerInputs ==
  { SubSeq(<< <<0, 0, 0>>, <<1, 1, 0>>, Add(<<1, 1, 0>>, a), Add(Add(<<1, 1, 0>>, a), b),
              Add(Add(<<1, 1, 0>>, a), <<t * b[1], t * b[2], t * b[3]>>) >>, 1, n) :
      a \in SegmentVectors, b \in SegmentVectors, t \in {2, 1, 0}, n \in {5, 4} }

\* hands whose palm lies 40 below, 40 above or level with the wrist, the
\* index finger MCP joint shifted sideways; cut to 17 landmarks the pinky MCP
\* joint is missing
RotationInputs ==
  { MkHand(<< <<x, y, 0>>, <<0, y, 0>>, <<0, y, 0>>, <<0, y, 0>> >>,
           <<Slight, Slight, Slight, Slight, Slight>>, n) :
      x \in -MaxShift..MaxShift, y \in {-40, 0, 40}, n \in {21, 17} }

\* calculate_finger_angle(landmarks, 0, 1, 2, 3, 4) of camera_to_arduino_pca9685.py
call_calculate_finger_angle ==
  /\ script = "calculate_finger_angle" /\ pc = "start"
  /\ \E angle \in calculate_finger_angle(probe_in, 0, 1, 2, 3, 4) :
       probe_out' = [angle |-> angle]
  /\ pc' = "done"
  /\ UNCHANGED <<exporter, game, script, arduino_connected, results, has_last_wrist_angle,
                 last_wrist_angle, written, report, sent, probe_in>>

\* calculate_finger_angle(landmarks, 0, 1, 2, 3, 4) of camera_to_arduino.py
call_cta_calculate_finger_angle ==
  /\ script = "cta_calculate_finger_angle" /\ pc = "start"
  /\ \E angle \in cta_calculate_finger_angle(probe_in, 0, 1, 2, 3, 4) :
       probe_out' = [angle |-> angle]
  /\ pc' = "done"
  /\ UNCHANGED <<exporter, game, script, arduino_connected, results, has_last_wrist_angle,
                 last_wrist_angle, written, report, sent, probe_in>>

\* send_servo_angles: wrist_angle = calculate_hand_rotation(landmarks);
\* wrist_servo = int(min(max(map_value(wrist_angle, 70, 110, 0, 180), 0), 180))
call_calculate_hand_rotation ==
  /\ script = "calculate_hand_rotation" /\ pc = "start"
  /\ LET wrist_angle == calculate_hand_rotation(probe_in)
     IN  probe_out' = [wrist_angle |-> wrist_angle, wrist_servo |-> wrist_servo_of(wrist_angle)]
  /\ pc' = "done"
  /\ UNCHANGED <<exporter, game, script, arduino_connected, results, has_last_wrist_angle,
                 last_wrist_angle, written, report, sent, probe_in>>

InitAngle ==
  /\ script \in {"calculate_finger_angle", "cta_calculate_finger_angle", "calculate_hand_rotation"}
  /\ pc = "start"
  /\ arduino_connected = FALSE
  /\ results = << >>
  /\ has_last_wrist_angle = FALSE
  /\ last_wrist_angle = 0
  /\ written = << >>
  /\ report = << >>
  /\ sent = << >>
  /\ probe_in \in (IF script = "calculate_hand_rotation" THEN RotationInputs ELSE FingerInputs)
  /\ probe_out = << >>
  /\ game = NewGame
  /\ is_tracking = FALSE
  /\ tracking_thread = 0
  /\ loops = NoLoops

NextAngle ==
  \/ call_calculate_finger_angle
  \/ call_cta_calculate_finger_angle
  \/ call_calculate_hand_rotation

SpecAngle == InitAngle /\ [][NextAngle]_vars

----------------------------------------------------------------------------
(* A UnityHandExporter with its caller and its loop threads: the caller    *)
(* calls start_tracking() and stop_tracking() in any order, each loop      *)
(* thread runs _tracking_loop; a step is one access to is_tracking or one  *)
(* blocking call.                                                          *)

\* the frames of the loop threads: no hand, one hand
LoopFrames ==
  { frame \in TelemetryFrames :
      /\ Len(frame.multi_hand_landmarks) <= 1
      /\ \A h \in 1..Len(frame.multi_hand_landmarks) :
           /\ frame.multi_handedness[h] = "Right"
           /\ frame.multi_hand_landmarks[h]
                = Shift(FullHand(PalmUpright, <<Slight, Straight, Slight, Fist, Slight>>),
                        <<64, 80, 0>>) }

\* what the caller and the loop threads leave alone
pipeline == <<script, arduino_connected, results, has_last_wrist_angle, last_wrist_angle,
              written, report, probe_in, probe_out, game>>

\* start_tracking(): if self.is_tracking: return
start_tracking_test ==
  /\ script = "UnityHandExporter" /\ pc = "idle"
  /\ \E t \in 1..MaxLoops : loops[t].pc = "unstarted"
  /\ pc' = IF is_tracking THEN "idle" ELSE "starting"
  /\ UNCHANGED <<exporter, pipeline, sent>>

\* start_tracking(): self.is_tracking = True; a new daemon thread with target
\* _tracking_loop is stored in tracking_thread and started
start_tracking ==
  /\ script = "UnityHandExporter" /\ pc = "starting"
  /\ LET t == CHOOSE u \in 1..MaxLoops :
                /\ loops[u].pc = "unstarted"
                /\ \A v \in 1..MaxLoops : loops[v].pc = "unstarted" => u <= v
     IN  /\ is_tracking' = TRUE
         /\ tracking_thread' = t
         /\ loops' = [loops EXCEPT ![t].pc = "open"]
  /\ pc' = "idle"
  /\ UNCHANGED <<pipeline, sent>>

\* stop_tracking(): self.is_tracking = False; if self.tracking_thread: ...
stop_tracking ==
  /\ script = "UnityHandExporter" /\ pc = "idle"
  /\ is_tracking' = FALSE
  /\ pc' = IF tracking_thread # 0 THEN "joining" ELSE "idle"
  /\ UNCHANGED <<tracking_thread, loops, pipeline, sent>>

\* stop_tracking(): self.tracking_thread.join(timeout=1.0) returns when the
\* thread has ended or after one second; self.tracking_thread = None
stop_tracking_join ==
  /\ script = "UnityHandExporter" /\ pc = "joining"
  /\ tracking_thread' = 0
  /\ pc' = "idle"
  /\ UNCHANGED <<is_tracking, loops, pipeline, sent>>

\* _tracking_loop: cap = cv2.VideoCapture(0); if not cap.isOpened():
\* self.is_tracking = False; return
tracking_loop_open(t) ==
  /\ loops[t].pc = "open"
  /\ \E opened \in BOOLEAN :
       IF opened
         THEN /\ loops' = [loops EXCEPT ![t].pc = "while", ![t].cap = "open"]
              /\ UNCHANGED is_tracking
         ELSE /\ loops' = [loops EXCEPT ![t].pc = "done"]
              /\ is_tracking' = FALSE
  /\ UNCHANGED <<pc, tracking_thread, pipeline, sent>>

\* tracking_loop_while going round whatever is_tracking says
tracking_loop_while_true(t) ==
  /\ loops[t].pc = "while"
  /\ loops' = [loops EXCEPT ![t].pc = "read"]
  /\ UNCHANGED <<pc, is_tracking, tracking_thread, pipeline, sent>>

\* _tracking_loop: while self.is_tracking:
tracking_loop_while(t) ==
  /\ loops[t].pc = "while"
  /\ loops' = [loops EXCEPT ![t].pc = IF is_tracking THEN "read" ELSE "release"]
  /\ UNCHANGED <<pc, is_tracking, tracking_thread, pipeline, sent>>

\* _tracking_loop: success, img = cap.read(); if not success: time.sleep(0.1);
\* continue
tracking_loop_read(t) ==
  /\ loops[t].pc = "read"
  /\ \/ loops' = [loops EXCEPT ![t].pc = "while"]
     \/ /\ loops[t].frames < MaxFrames
        /\ loops' = [loops EXCEPT ![t].pc = "frame", ![t].frames = @ + 1]
  /\ UNCHANGED <<pc, is_tracking, tracking_thread, pipeline, sent>>

\* _tracking_loop: tracker.find_hands(img) ... if hands_data:
\* self._send_to_unity_multi(hands_data); an exception of socket.sendto is
\* caught and printed
tracking_loop_frame(t) ==
  /\ loops[t].pc = "frame"
  /\ \E frame \in LoopFrames :
       IF frame.multi_hand_landmarks # << >>
         THEN \E hands_data \in tracking_hands_data(frame, 0, << >>) :
                IF hands_data # << >>
                  THEN \/ sent' = Append(sent, unity_packet(hands_data))
                       \/ UNCHANGED sent
                  ELSE UNCHANGED sent
         ELSE UNCHANGED sent
  /\ loops' = [loops EXCEPT ![t].pc = "key"]
  /\ UNCHANGED <<pc, is_tracking, tracking_thread, pipeline>>

\* _tracking_loop: if cv2.waitKey(1) & 0xFF == ord('q'): self.is_tracking = False
tracking_loop_key(t) ==
  /\ loops[t].pc = "key"
  /\ \E quit \in BOOLEAN : is_tracking' = IF quit THEN FALSE ELSE is_tracking
  /\ loops' = [loops EXCEPT ![t].pc = "while"]
  /\ UNCHANGED <<pc, tracking_thread, pipeline, sent>>

\* _tracking_loop: cap.release(); cv2.destroyAllWindows()
tracking_loop_release(t) ==
  /\ loops[t].pc = "release"
  /\ loops' = [loops EXCEPT ![t].pc = "done", ![t].cap = "released"]
  /\ UNCHANGED <<pc, is_tracking, tracking_thread, pipeline, sent>>

\* one step of loop thread t
tracking_loop(t) ==
  \/ tracking_loop_open(t)
  \/ tracking_loop_while(t)
  \/ tracking_loop_read(t)
  \/ tracking_loop_frame(t)
  \/ tracking_loop_key(t)
  \/ tracking_loop_release(t)

InitThreads ==
  /\ script = "UnityHandExporter"
  /\ pc = "idle"
  /\ arduino_connected = FALSE
  /\ results = << >>
  /\ has_last_wrist_angle = FALSE
  /\ last_wrist_angle = 0
  /\ written = << >>
  /\ report = << >>
  /\ sent = << >>
  /\ probe_in = 0
  /\ probe_out = << >>
  /\ game = NewGame
  /\ is_tracking = FALSE
  /\ tracking_thread = 0
  /\ loops = NoLoops

NextThreads ==
  \/ start_tracking_test
  \/ start_tracking
  \/ stop_tracking
  \/ stop_tracking_join
  \/ \E t \in 1..MaxLoops : tracking_loop(t)

SpecThreads == InitThreads /\ [][NextThreads]_vars

\* every loop thread that can take a step eventually takes one
SpecThreadsFair ==
  SpecThreads /\ \A t \in 1..MaxLoops : WF_vars(tracking_loop(t))

----------------------------------------------------------------------------
(* The telemetry encoders on their own: one call for a frame given at the  *)
(* start, whose hands may hold fewer than 21 landmarks.                    *)

\* number of landmarks of a detected hand
TelemetryCounts == {21, 20, 10, 9, 1, 0}

PartialHands ==
  { SubSeq(Shift(FullHand(palm, <<Slight, Straight, Slight, Fist, Slight>>), <<64, 80, 0>>), 1, n) :
      palm \in {PalmUpright, PalmDiagonal, PalmOnWrist}, n \in TelemetryCounts }

PartialFrames ==
  UNION { { [ multi_hand_landmarks |-> lms, multi_handedness |-> labels ] :
              lms \in [1..n -> PartialHands], labels \in [1..n -> {"Left", "Right"}] } :
          n \in 0..max_num_hands }

\* send_hand_data(results): returns at once without hands; wrist =
\* landmarks[0]["position"] raises IndexError for a hand without landmarks,
\* before anything is sent; sock.sendto may raise
call_send_hand_data ==
  /\ script = "send_hand_data" /\ pc = "start"
  /\ IF results.multi_hand_landmarks = << >>
       THEN /\ pc' = "done"
            /\ UNCHANGED sent
       ELSE IF \E h \in 1..Len(results.multi_hand_landmarks) :
                  Len(results.multi_hand_landmarks[h]) = 0
         THEN /\ pc' = "raised"
              /\ UNCHANGED sent
         ELSE \/ /\ sent' = Append(sent, multi_hand_data(results))
                 /\ pc' = "done"
              \/ /\ pc' = "raised"
                 /\ UNCHANGED sent
  /\ UNCHANGED <<exporter, game, script, arduino_connected, results, has_last_wrist_angle,
                 last_wrist_angle, written, report, probe_in, probe_out>>

\* _tracking_loop, one frame from find_hands to _send_to_unity_multi
call_tracking_frame ==
  /\ script = "tracking_frame" /\ pc = "start"
  /\ IF results.multi_hand_landmarks # << >>
       THEN \E hands_data \in tracking_hands_data(results, 0, << >>) :
              IF hands_data # << >>
                THEN \/ sent' = Append(sent, unity_packet(hands_data))
                     \/ UNCHANGED sent
                ELSE UNCHANGED sent
       ELSE UNCHANGED sent
  /\ pc' = "done"
  /\ UNCHANGED <<exporter, game, script, arduino_connected, results, has_last_wrist_angle,
                 last_wrist_angle, written, report, probe_in, probe_out>>

\* _send_to_unity(landmarks, hand_type), the legacy single-hand sender: the
\* datagram it builds
legacy_packet(landmarks, hand_type) ==
  [ timestamp |-> "time.time()",
    hand_type |-> hand_type,
    landmarks |-> [ k \in 1..Len(landmarks) |->
                      LET lm == landmarks[k]
                      IN  [ id |-> lm[1],
                            name |-> get_landmark_name(lm[1]),
                            position |-> <<lm[2], lm[3], lm[4]>> ] ] ]

\* one call of _send_to_unity with the landmarks and the label the tracking
\* loop has for the one detected hand; an exception of socket.sendto is caught
call_send_to_unity ==
  /\ script = "_send_to_unity" /\ pc = "start"
  /\ \E landmarks \in add_forearm_landmarks(find_positions(results.multi_hand_landmarks, 0)) :
        \/ sent' = Append(sent, legacy_packet(landmarks, results.multi_handedness[1]))
        \/ UNCHANGED sent
  /\ pc' = "done"
  /\ UNCHANGED <<exporter, game, script, arduino_connected, results, has_last_wrist_angle,
                 last_wrist_angle, written, report, probe_in, probe_out>>

InitEncode ==
  /\ script \in {"send_hand_data", "tracking_frame", "_send_to_unity"}
  /\ pc = "start"
  /\ arduino_connected = FALSE
  /\ results \in PartialFrames
  /\ script = "_send_to_unity" => Len(results.multi_hand_landmarks) = 1
  /\ has_last_wrist_angle = FALSE
  /\ last_wrist_angle = 0
  /\ written = << >>
  /\ report = << >>
  /\ sent = << >>
  /\ probe_in = 0
  /\ probe_out = << >>
  /\ game = NewGame
  /\ is_tracking = FALSE
  /\ tracking_thread = 0
  /\ loops = NoLoops

NextEncode ==
  \/ call_send_hand_data
  \/ call_tracking_frame
  \/ call_send_to_unity

SpecEncode == InitEncode /\ [][NextEncode]_vars

----------------------------------------------------------------------------
(* The claims *)

ChannelsOf(cmds) == [i \in 1..Len(cmds) |-> cmds[i].channel]
CommandsOfHand(h) == SelectSeq(written, LAMBDA c : c.hand = h)
Min(a, b) == IF a <= b THEN a ELSE b
Max(a, b) == IF a >= b THEN a ELSE b

\* C1: a hand whose six writes all succeed has its commands written in the
\* order thumb (3), index (1), middle (2), ring (4), pinky (5), wrist (6); the
\* commands of the first hand of a frame all precede those of the second; and
\* set_hand_position writes its six commands in the same channel order.
C1_FixedChannelOrder ==
  /\ script = "camera_to_arduino_pca9685" =>
       /\ \A h \in 1..Len(report) :
            report[h].failed = 0 => ChannelsOf(CommandsOfHand(h)) = <<3, 1, 2, 4, 5, 6>>
       /\ \A i, j \in 1..Len(written) : i < j => written[i].hand <= written[j].hand
  /\ script = "rock_paper_scissors_hand" =>
       \A k \in 1..Len(report) :
         report[k].failing = {} => ChannelsOf(written) = <<3, 1, 2, 4, 5, 6>>

\* a frame of two hands, all twelve writes done, hand 1 then hand 2
C1_Witness ==
  /\ script = "camera_to_arduino_pca9685" /\ pc = "key"
  /\ Len(report) = 2 /\ report[1].failed = 0 /\ report[2].failed = 0
  /\ Len(written) = 12 /\ written[6].hand = 1 /\ written[7].hand = 2

C5_RingNeverBelow30 ==
  \A i \in 1..Len(written) : written[i].channel = 4 => written[i].angle >= 30

\* C6: the wrist value emitted for a hand lies between the smoothing state
\* before the hand (the raw value itself when the state was still unset) and
\* the hand's raw wrist servo value, inclusive.
C6_SmoothedBetweenPrevAndRaw ==
  script = "camera_to_arduino_pca9685" =>
    \A h \in 1..Len(report) :
      report[h].failed = 0 =>
        LET raw == report[h].wrist_servo
            prev == IF report[h].had_last THEN report[h].last_before ELSE raw
        IN  /\ Min(prev, raw) <= report[h].last_after
            /\ report[h].last_after <= Max(prev, raw)

\* C7: the send step of a frame with no hands writes nothing and leaves the
\* wrist smoothing state as it was.
C7_NoHandsNoCommands ==
  [][(script = "camera_to_arduino_pca9685" /\ pc = "send" /\ results = << >>) =>
       /\ written' = << >>
       /\ has_last_wrist_angle' = has_last_wrist_angle
       /\ last_wrist_angle' = last_wrist_angle]_vars

\* a frame without hands has passed the send step of a session whose
\* smoothing state was already set
C7_Witness ==
  /\ script = "camera_to_arduino_pca9685" /\ pc = "key"
  /\ results = << >> /\ written = << >> /\ has_last_wrist_angle

\* the linear map of the calibration table, clamped and truncated:
\* (angle - domain_min) * (clamp_max - clamp_min) / (domain_max - domain_min)
\*   + clamp_min, clamped to [clamp_min, clamp_max]
LinearClamp(angle, domain_min, domain_max, clamp_min, clamp_max) ==
  LET sign == IF domain_max < domain_min THEN -1 ELSE 1
      n == sign * (angle - domain_min) * (clamp_max - clamp_min)
      d == sign * (domain_max - domain_min)
  IN  Max(clamp_min, Min(clamp_max, clamp_min + (n \div d)))

\* C4 as stated: every channel's value is the linear map of the table, the
\* ring channel mapping [180,20] onto [30,180].
C4_LinearMapTable ==
  (script = "calibration" /\ pc = "done") =>
    /\ probe_out.thumb_servo = LinearClamp(probe_in, 170, 120, 0, 180)
    /\ probe_out.index_servo = LinearClamp(probe_in, 180, 30, 0, 180)
    /\ probe_out.middle_servo = LinearClamp(probe_in, 180, 30, 0, 180)
    /\ probe_out.ring_servo = LinearClamp(probe_in, 180, 20, 30, 180)
    /\ probe_out.pinky_servo = LinearClamp(probe_in, 175, 20, 0, 180)
    /\ probe_out.wrist_servo = LinearClamp(probe_in, 70, 110, 0, 180)

\* C4 as amended: the ring channel maps [180,20] onto [0,180] like the other
\* fingers and only then is clamped to [30,180].
C4_LinearMapTableRingFloor ==
  (script = "calibration" /\ pc = "done") =>
    /\ probe_out.thumb_servo = LinearClamp(probe_in, 170, 120, 0, 180)
    /\ probe_out.index_servo = LinearClamp(probe_in, 180, 30, 0, 180)
    /\ probe_out.middle_servo = LinearClamp(probe_in, 180, 30, 0, 180)
    /\ probe_out.ring_servo = Max(30, LinearClamp(probe_in, 180, 20, 0, 180))
    /\ probe_out.pinky_servo = LinearClamp(probe_in, 175, 20, 0, 180)
    /\ probe_out.wrist_servo = LinearClamp(probe_in, 70, 110, 0, 180)

\* ring angle 100: the code commands 90 where the table's map onto [30,180]
\* gives 105; ring angle 170: the floor of 30 applies
C4_Witness ==
  /\ script = "calibration" /\ pc = "done"
  /\ \/ probe_in = 100 /\ probe_out.ring_servo = 90
     \/ probe_in = 170 /\ probe_out.ring_servo = 30

\* C2: every command send_servo_angles writes carries an integer angle in
\* 0..180, whatever the landmarks (joints missing or not) and whatever the
\* wrist smoothing state before the call.
C2_CommandAnglesInRange ==
  \A i \in 1..Len(written) : written[i].angle \in 0..180

\* a hand with joints missing has had all six commands written, the wrist
\* one smoothed from a state at the top of the range
C2_Witness ==
  /\ script = "send_servo_angles" /\ pc = "done"
  /\ Len(results) = 1 /\ Len(results[1]) < 21
  /\ Len(written) = 6 /\ written[6].channel = 6
  /\ report[1].had_last /\ report[1].last_before = 180

InputJoint(h, k) ==
  IF script = "unity_exporter"
    THEN LET lm == find_positions(results.multi_hand_landmarks, h - 1)[k]
         IN  <<lm[2], lm[3], lm[4]>>
    ELSE results.multi_hand_landmarks[h][k]

\* C9: every hand of every datagram lists the ids 0..20 and then 21, 22,
\* 23, 24, strictly increasing; the entries 0..20 carry the input joints'
\* positions unchanged; and the datagram holds every detected hand of the
\* frame, in detection order.
C9_PacketIdsAndOrder ==
  \A p \in 1..Len(sent) :
    /\ Len(sent[p].hands) = Len(results.multi_hand_landmarks)
    /\ \A h \in 1..Len(sent[p].hands) :
         LET lms == sent[p].hands[h].landmarks
         IN  /\ [k \in 1..Len(lms) |-> lms[k].id] = [k \in 1..25 |-> k - 1]
             /\ \A k \in 1..21 : lms[k].position = InputJoint(h, k)
             /\ sent[p].hands[h].hand_type = results.multi_handedness[h]

\* the direction the forearm is derived from has zero length: wrist to
\* middle MCP in real_hand_tracking.py, the average of the image-plane
\* vectors from the MCPs 9, 5 and 17 to the wrist in unity_exporter.py
ZeroDirection(lms) ==
  IF script = "real_hand_tracking"
    THEN lms[10].position = lms[1].position
    ELSE \A c \in 1..2 :
           lms[10].position[c] + lms[6].position[c] + lms[18].position[c]
             = 3 * lms[1].position[c]

\* C10: every hand of 21 canonical joints leaves the forearm synthesizer with
\* exactly four more joints, ids 21, 22, 23, 24; when the direction has zero
\* length the four are still there and each sits at the wrist position.
C10_FourForearmJoints ==
  \A p \in 1..Len(sent) :
    \A h \in 1..Len(sent[p].hands) :
      LET lms == sent[p].hands[h].landmarks
          forearm == SelectSeq(lms, LAMBDA lm : lm.id > 20)
      IN  /\ [i \in 1..Len(forearm) |-> forearm[i].id] = <<21, 22, 23, 24>>
          /\ ZeroDirection(lms) =>
                \A i \in 1..Len(forearm) : forearm[i].position = lms[1].position

\* the hands of a datagram; the legacy datagram is one hand
PacketHands(packet) == IF "hands" \in DOMAIN packet THEN packet.hands ELSE <<packet>>

\* C11: no telemetry packet contains a hand whose landmark list lacks one of
\* the 21 canonical joints 0..20, unless the hand is flagged as partial
C11_NoTruncatedHand ==
  \A p \in 1..Len(sent) : \A h \in 1..Len(PacketHands(sent[p])) :
    LET hand == PacketHands(sent[p])[h]
        ids == {hand.landmarks[k].id : k \in 1..Len(hand.landmarks)}
    IN  \/ 0..20 \subseteq ids
        \/ "partial" \in DOMAIN hand

\* the canonical name of a joint id
CanonicalName(id) ==
  IF id \in 0..20 THEN LANDMARK_NAMES[id + 1]
  ELSE IF id \in 21..24 THEN forearm_names[id - 20]
  ELSE "none"

\* C12: every landmark of every telemetry datagram, on every send path, carries
\* the canonical name of its id
C12_CanonicalNames ==
  \A p \in 1..Len(sent) : \A h \in 1..Len(PacketHands(sent[p])) :
    LET landmarks == PacketHands(sent[p])[h].landmarks
    IN  \A k \in 1..Len(landmarks) : landmarks[k].name = CanonicalName(landmarks[k].id)

\* the finger channels: the servo field, the calibration of the neutral angle
\* 90 and the index of the fingertip
FingerChannels ==
  { [channel |-> 3, field |-> "thumb_servo", neutral |-> thumb_servo_of(90), tip |-> 4],
    [channel |-> 1, field |-> "index_servo", neutral |-> index_servo_of(90), tip |-> 8],
    [channel |-> 2, field |-> "middle_servo", neutral |-> middle_servo_of(90), tip |-> 12],
    [channel |-> 4, field |-> "ring_servo", neutral |-> ring_servo_of(90), tip |-> 16],
    [channel |-> 5, field |-> "pinky_servo", neutral |-> pinky_servo_of(90), tip |-> 20] }

\* the complete hands of the model that start with these landmarks
CompletionsOf(landmarks) ==
  { full \in Hands \cup WideHands :
      Len(full) = 21 /\ landmarks = SubSeq(full, 1, Len(landmarks)) }

\* C13: a hand with joints missing still gets its six commands; a finger with
\* a joint missing is commanded from the neutral angle 90, a finger whose
\* joints are all there from its own joints, and so the wrist
C13_MissingJointNeutral ==
  \A h \in 1..Len(report) :
    report[h].failed = 0 =>
      LET landmarks == results[h]
          cmds == CommandsOfHand(h)
          AngleOn(channel) == (CHOOSE c \in {cmds[i] : i \in 1..Len(cmds)} :
                                 c.channel = channel).angle
      IN  /\ ChannelsOf(cmds) = <<3, 1, 2, 4, 5, 6>>
          /\ \A f \in FingerChannels :
               IF Len(landmarks) <= f.tip
                 THEN AngleOn(f.channel) = f.neutral
                 ELSE \A full \in CompletionsOf(landmarks) :
                        AngleOn(f.channel) \in {sv[f.field] : sv \in servos_of[full]}
          /\ IF Len(landmarks) <= 17
               THEN report[h].wrist_servo = wrist_servo_of(90)
               ELSE \A full \in CompletionsOf(landmarks) :
                      report[h].wrist_servo \in {sv.wrist_servo : sv \in servos_of[full]}

\* a hand cut inside the ring finger got six commands: the index finger from
\* its own joints, the ring finger and the wrist neutral
C13_Witness ==
  /\ script = "send_servo_angles" /\ pc = "done"
  /\ Len(results) = 1 /\ Len(results[1]) = 14
  /\ CompletionsOf(results[1]) # {}
  /\ Len(report) = 1 /\ report[1].failed = 0
  /\ Len(written) = 6
  /\ written[2].angle # index_servo_of(90)
  /\ written[4].angle = ring_servo_of(90)
  /\ report[1].wrist_servo = 90

\* C14: in the three scripts that drive the actuator a failure to open the
\* serial port at startup does not end the script: the step that opens the
\* port never leads to the end of main, and without the connection nothing
\* is written
C14_ConnectFailureKeepsRunning ==
  /\ [][(pc = "start" /\ ~arduino_connected') => pc' # "done"]_vars
  /\ [](~arduino_connected => written = << >>)

\* C15: a write that fails in the PCA script does not end the frame loop: the
\* failure is reported, the commands of that hand after the failing one are
\* not written, every hand of the frame is still processed and the loop goes
\* on to the key step
C15_WriteFailureKeepsRunning ==
  /\ [][(script = "camera_to_arduino_pca9685" /\ pc = "send") => pc' = "key"]_vars
  /\ []((script = "camera_to_arduino_pca9685" /\ pc = "key") =>
          /\ Len(report) = Len(results)
          /\ \A h \in 1..Len(report) :
               report[h].failed # 0 =>
                 ChannelsOf(CommandsOfHand(h))
                   = SubSeq(<<3, 1, 2, 4, 5, 6>>, 1, report[h].failed - 1))

\* the third write of the first hand failed: two commands of that hand, all
\* six of the second hand
C15_Witness ==
  /\ script = "camera_to_arduino_pca9685" /\ pc = "key"
  /\ Len(results) = 2 /\ Len(report) = 2
  /\ report[1].failed = 3 /\ report[2].failed = 0
  /\ Len(CommandsOfHand(1)) = 2
  /\ Len(CommandsOfHand(2)) = 6

\* C16: a failing send on the UDP socket does not end the frame loop of a
\* telemetry sender: from the send step the loop always goes on to the key step
C16_SendFailureKeepsRunning ==
  [][(script \in {"real_hand_tracking", "unity_exporter"} /\ pc = "send")
       => pc' = "key"]_vars

\* the datagram size limit of the telemetry sink, in bytes
datagram_limit == 512

\* number of characters of str(n)
IntLen(n) ==
  (IF n < 0 THEN 1 ELSE 0)
    + (IF Abs(n) < 10 THEN 1 ELSE IF Abs(n) < 100 THEN 2 ELSE IF Abs(n) < 1000 THEN 3 ELSE 4)

RECURSIVE SumSeq(_)
SumSeq(seq) == IF seq = << >> THEN 0 ELSE Head(seq) + SumSeq(Tail(seq))

\* a lower bound of len(json.dumps(data).encode()): the keys and punctuation
\* of the envelope with a 12-character timestamp, of every hand and of every
\* landmark {"id": .., "name": "..", "position": [.., .., ..]}, each
\* coordinate counted as one character
json_len_at_least(packet) ==
  40 + SumSeq([ h \in 1..Len(PacketHands(packet)) |->
                  LET hand == PacketHands(packet)[h]
                  IN  34 + Len(hand.hand_type)
                        + SumSeq([ k \in 1..Len(hand.landmarks) |->
                                     40 + IntLen(hand.landmarks[k].id)
                                        + Len(hand.landmarks[k].name) + 3 ]) ])

\* C17: no datagram larger than the size limit is handed to the socket, and
\* at most one datagram is sent per frame
C17_NoOversizedDatagram ==
  /\ Len(sent) <= 1
  /\ \A p \in 1..Len(sent) : json_len_at_least(sent[p]) <= datagram_limit

\* the loop threads that have started and not ended
RunningLoops == {t \in 1..MaxLoops : loops[t].pc \notin {"unstarted", "done"}}

\* C18: a loop thread passes its while test only when the stop signal is not
\* set, so after stop_tracking() it finishes at most the frame in flight; and
\* if from some point on the stop signal stays set (no start_tracking()
\* afterwards), every loop thread eventually has ended with its camera released
C18_StopEndsLoop ==
  /\ [][\A t \in 1..MaxLoops :
          (loops[t].pc = "while" /\ loops'[t].pc = "read") => is_tracking]_vars
  /\ (<>[](~is_tracking)
        => <>[](RunningLoops = {} /\ \A t \in 1..MaxLoops : loops[t].cap # "open"))

\* stop_tracking() has returned, the stop signal is set, and a loop thread that
\* had begun a frame has ended and released the camera
C18_Witness ==
  /\ script = "UnityHandExporter" /\ pc = "idle"
  /\ ~is_tracking /\ tracking_thread = 0
  /\ RunningLoops = {}
  /\ \E t \in 1..MaxLoops :
       loops[t].pc = "done" /\ loops[t].cap = "released" /\ loops[t].frames = 1

\* C19: at most one tracking loop of a UnityHandExporter is running at any time
C19_OneLoopAtATime == Cardinality(RunningLoops) <= 1

SegmentOf(landmarks, from, to) == Sub(At(landmarks, to), At(landmarks, from))
IsZero(vec) == vec = <<0, 0, 0>>

\* C21: calculate_finger_angle (of camera_to_arduino_pca9685.py and of
\* camera_to_arduino.py) returns a value in 0..180 for every landmark input,
\* and exactly 90 whenever one of its two segment vectors (MCP-to-PIP, and
\* PIP-to-TIP respectively PIP-to-DIP) has zero length
C21_FingerAngleRange ==
  (pc = "done" /\ script \in {"calculate_finger_angle", "cta_calculate_finger_angle"})
    => /\ probe_out.angle \in 0..180
       /\ (Len(probe_in) = 5 /\ script = "calculate_finger_angle"
             /\ (IsZero(SegmentOf(probe_in, 1, 2)) \/ IsZero(SegmentOf(probe_in, 2, 4))))
            => probe_out.angle = 90
       /\ (Len(probe_in) = 5 /\ script = "cta_calculate_finger_angle"
             /\ (IsZero(SegmentOf(probe_in, 1, 2)) \/ IsZero(SegmentOf(probe_in, 2, 3))))
            => probe_out.angle = 90

\* the tip lies on the PIP joint while the DIP joint does not: 90 from
\* camera_to_arduino_pca9685.py
C21_Witness ==
  /\ pc = "done" /\ script = "calculate_finger_angle"
  /\ Len(probe_in) = 5
  /\ ~IsZero(SegmentOf(probe_in, 1, 2))
  /\ ~IsZero(SegmentOf(probe_in, 2, 3))
  /\ IsZero(SegmentOf(probe_in, 2, 4))
  /\ probe_out.angle = 90

\* PIP-to-TIP points the same way as MCP-to-PIP: bend angle 0
IsStraight(landmarks, mcp_idx, pip_idx, tip_idx) ==
  LET a == SegmentOf(landmarks, mcp_idx, pip_idx)
      b == SegmentOf(landmarks, pip_idx, tip_idx)
  IN  Dot(a, b) > 0 /\ Dot(a, b) * Dot(a, b) = Dot(a, a) * Dot(b, b)

AllStraight(landmarks) ==
  /\ Len(landmarks) = 21
  /\ \A f \in 0..4 : IsStraight(landmarks, 4 * f + 1, 4 * f + 2, 4 * f + 4)

\* the angle written on a channel for the only hand of the frame
AngleOn(channel) ==
  LET i == CHOOSE i \in 1..Len(written) : written[i].channel = channel IN written[i].angle

\* C22: for a hand whose five fingers are all straight the five finger
\* commands are the extended values of the calibration table: thumb 0,
\* index 0, middle 0, ring 30, pinky 0
C22_StraightHandExtended ==
  (script = "send_servo_angles" /\ pc = "done" /\ Len(results) = 1
     /\ AllStraight(results[1]) /\ Len(written) = 6)
    => /\ AngleOn(3) = 0
       /\ AngleOn(1) = 0
       /\ AngleOn(2) = 0
       /\ AngleOn(4) = 30
       /\ AngleOn(5) = 0

\* the report entries of hands that reached the wrist step with no smoothing
\* state yet: the first such hand of a session
FirstWristHands ==
  { i \in 1..Len(report) : ~report[i].had_last /\ report[i].failed \in {0, 6} }

\* C23: on the first hand of a session that reaches the wrist step the
\* smoothing state becomes that hand's raw wrist servo value, and the wrist
\* command written equals that raw value
C23_FirstWristIsRaw ==
  script \in {"send_servo_angles", "camera_to_arduino_pca9685"}
    => \A i \in FirstWristHands :
         /\ report[i].last_after = report[i].wrist_servo
         /\ report[i].failed = 0
              => \E k \in 1..Len(written) :
                   /\ written[k].hand = i /\ written[k].channel = 6
                   /\ written[k].angle = report[i].wrist_servo

\* C24: the wrist smoothing state changes while a hand is processed only if
\* the wrist command of that hand is written: when one of the six writes of
\* the hand fails, the state after the hand equals the state before it
\* (stated for the hands that find a smoothing state)
C24_StateChangesOnlyWithWristWrite ==
  script \in {"send_servo_angles", "camera_to_arduino_pca9685"}
    => \A i \in 1..Len(report) :
         (report[i].had_last /\ report[i].failed # 0)
           => report[i].last_after = report[i].last_before

\* four times the vector from the wrist to the palm centre, y pointing up
PalmVector(landmarks) ==
  LET sum(c) == At(landmarks, 5)[c] + At(landmarks, 9)[c] + At(landmarks, 13)[c]
                  + At(landmarks, 17)[c] - 4 * At(landmarks, 0)[c]
  IN  [v |-> sum(1), u |-> -sum(2)]

\* the mapped rotation value lies strictly between 85 and 95: the angle of
\* the palm vector against the vertical lies within 10/3 degrees
MappedWithin5(landmarks) ==
  LET pv == PalmVector(landmarks)
  IN  /\ pv.u > 0
      /\ TanTable[86] * pv.u < pv.v * 1000000
      /\ pv.v * 1000000 < TanTable[96] * pv.u

\* C25: calculate_hand_rotation returns 90 whenever the mapped rotation value
\* differs from 90 by less than 5; it never returns a value in 86..89 or
\* 91..94, and its result is an integer in 0..180
C25_DeadZone ==
  (script = "calculate_hand_rotation" /\ pc = "done")
    => /\ probe_out.wrist_angle \in 0..180
       /\ probe_out.wrist_angle \notin (86..89) \cup (91..94)
       /\ (Len(probe_in) = 21 /\ MappedWithin5(probe_in)) => probe_out.wrist_angle = 90

\* a palm off the vertical but inside the dead zone
C25_Witness ==
  /\ script = "calculate_hand_rotation" /\ pc = "done"
  /\ Len(probe_in) = 21
  /\ MappedWithin5(probe_in)
  /\ PalmVector(probe_in).v > 0
  /\ probe_out.wrist_angle = 90

\* C29: the wrist servo value send_servo_angles computes before smoothing
\* is in 0..67, exactly 90, or in 112..180: no landmark input gives a value
\* in 68..89 or 91..111
C29_RawWristBands ==
  (script = "calculate_hand_rotation" /\ pc = "done")
    => probe_out.wrist_servo \in (0..67) \cup {90} \cup (112..180)

\* the rotations next to the dead zone, 84 and 95, give 63 and 112
C29_Witness ==
  /\ script = "calculate_hand_rotation" /\ pc = "done"
  /\ \/ probe_out.wrist_angle = 84 /\ probe_out.wrist_servo = 63
     \/ probe_out.wrist_angle = 95 /\ probe_out.wrist_servo = 112

\* C26: a centred hand is a fixed point of the wrist path: rotation 90 maps
\* to raw wrist servo 90, and for every v in 0..180 smoothing state v with
\* raw value v writes the wrist command v and leaves the state v
C26_FixedPoint ==
  /\ wrist_servo_of(90) = 90
  /\ script = "send_servo_angles"
       => \A i \in 1..Len(report) :
            ( /\ report[i].had_last
              /\ report[i].last_before = report[i].wrist_servo
              /\ report[i].failed = 0 )
              => /\ report[i].last_after = report[i].wrist_servo
                 /\ \E k \in 1..Len(written) :
                      /\ written[k].hand = i /\ written[k].channel = 6
                      /\ written[k].angle = report[i].wrist_servo

\* C28: for hands with the same raw wrist servo value r, every write
\* succeeding, the wrist value moves monotonically toward r and stops only on
\* a value v with 0 <= r - v <= 3: from at or above r it comes down to r and
\* stays there, from below it may stall up to 3 below r.  Stated for one
\* hand, from state s to state t: t lies between s and r, above r the state
\* decreases, at r it stays, and it stays put only within 3 below r
C28_ConvergesToRaw ==
  script = "send_servo_angles"
    => \A i \in 1..Len(report) :
         (report[i].had_last /\ report[i].failed = 0)
           => LET s == report[i].last_before
                  t == report[i].last_after
                  r == report[i].wrist_servo
              IN  /\ s >= r => (r <= t /\ t <= s)
                  /\ s <= r => (s <= t /\ t <= r)
                  /\ s > r => t < s
                  /\ t = s => (0 <= r - s /\ r - s <= 3)

\* the position of the forearm joint with this id, relative to the wrist
ForearmOffset(lms, id) ==
  LET k == CHOOSE k \in 1..Len(lms) : lms[k].id = id
  IN  Sub(lms[k].position, lms[1].position)

\* num * a = den * b in every coordinate, up to the truncation of the
\* coordinates of a and of b (less than one unit each, in either direction)
InProportion(a, num, b, den) ==
  \A c \in 1..3 : Abs(num * a[c] - den * b[c]) < num + den

\* C27: each intermediate forearm point is displaced from the wrist by the
\* fraction of the wrist-to-ELBOW displacement that its name states:
\* FOREARM_MID (22) by 1/2, FOREARM_QUARTER (23) by 1/4,
\* FOREARM_THREE_QUARTER (24) by 3/4, in depth and in image position up to
\* truncation; by distance from the wrist the order is 23, 22, 24, 21
C27_ForearmFractions ==
  \A p \in 1..Len(sent) :
    \A h \in 1..Len(sent[p].hands) :
      LET lms == sent[p].hands[h].landmarks
          ids == {lms[k].id : k \in 1..Len(lms)}
          elbow == ForearmOffset(lms, 21)
          mid == ForearmOffset(lms, 22)
          quarter == ForearmOffset(lms, 23)
          three_quarter == ForearmOffset(lms, 24)
      IN  21..24 \subseteq ids
            => /\ InProportion(mid, 2, elbow, 1)
               /\ InProportion(quarter, 4, elbow, 1)
               /\ InProportion(three_quarter, 4, elbow, 3)
               /\ Dot(quarter, quarter) <= Dot(mid, mid)
               /\ Dot(mid, mid) <= Dot(three_quarter, three_quarter)
               /\ Dot(three_quarter, three_quarter) <= Dot(elbow, elbow)

Scores(g) == <<g.player_score, g.robot_score, g.ties>>

\* the scores after one more round with this result
Scored(g, result) ==
  << g.player_score + (IF result = "player" THEN 1 ELSE 0),
     g.robot_score + (IF result = "robot" THEN 1 ELSE 0),
     g.ties + (IF result = "tie" THEN 1 ELSE 0) >>

\* the step of the game loop in which the countdown expires
CountdownExpires ==
  script = "rps_game" /\ pc = "countdown" /\ game.countdown_active /\ ~game'.countdown_active

\* C30: in the game loop each countdown that expires while a player gesture
\* is detected adds 1 to exactly the one of player_score, robot_score, ties
\* that determine_winner names and leaves the other two; a countdown that
\* expires with no gesture changes none; SPACE during an active countdown
\* does not restart it; so the sum of the three counts the rounds played
\* since the last reset (every other step leaves the scores or resets them)
C30_OneScorePerRound ==
  /\ [][ CountdownExpires =>
           IF game.current_player_gesture # "None"
             THEN Scores(game') = Scored(game, determine_winner(game.current_player_gesture,
                                                                 game'.current_robot_gesture))
             ELSE Scores(game') = Scores(game) ]_vars
  /\ [][ (script = "rps_game" /\ pc = "key" /\ game.countdown_active)
           => (game'.countdown_active /\ Scores(game') \in {Scores(game), <<0, 0, 0>>}) ]_vars
  /\ [][ (script = "rps_game" /\ ~CountdownExpires)
           => Scores(game') \in {Scores(game), <<0, 0, 0>>} ]_vars

====
